---------------------------- MODULE Spec2Model ----------------------------
(***************************************************************************)
(* Model of the pre-tool-use security hook of                              *)
(* feat/01-core-implementation/examples/security.py.                       *)
(*                                                                         *)
(* A Python str is modelled as a sequence of one-character strings, so     *)
(* that startswith, endswith, "in", slicing, shlex and the regular         *)
(* expressions of the source are computed character by character.          *)
(***************************************************************************)
EXTENDS Integers, Sequences, FiniteSets, TLC

(***************************************************************************)
(* str helpers                                                             *)
(***************************************************************************)

\* str.startswith(p)
StartsWith(s, p) == Len(s) >= Len(p) /\ SubSeq(s, 1, Len(p)) = p

\* str.endswith(p)
EndsWith(s, p) == Len(s) >= Len(p) /\ SubSeq(s, Len(s) - Len(p) + 1, Len(s)) = p

\* p in s  (substring test)
Contains(s, p) == \E i \in 1..(Len(s) - Len(p) + 1) : SubSeq(s, i, i + Len(p) - 1) = p

\* s[a:b] with 0-based Python bounds a <= b, clipped to the string
Slice(s, a, b) == SubSeq(s, a + 1, IF b > Len(s) THEN Len(s) ELSE b)

\* the characters str.strip(), \s and shlex treat as whitespace
Whitespace == {" ", "\t", "\n", "\r"}

\* The backtick and the NUL character, which a TLA+ string literal cannot hold,
\* each written as a value that is no other character.
Backtick == "BACKTICK"

Nul == "NUL"

\* the quote characters of shlex and of the regular expressions
Quotes == {"\"", "'"}

RECURSIVE LStrip(_)
LStrip(s) == IF s # <<>> /\ Head(s) \in Whitespace THEN LStrip(Tail(s)) ELSE s

RECURSIVE RStrip(_)
RStrip(s) ==
    IF s # <<>> /\ s[Len(s)] \in Whitespace THEN RStrip(SubSeq(s, 1, Len(s) - 1)) ELSE s

\* str.strip()
Strip(s) == RStrip(LStrip(s))

RECURSIVE Concat(_)
Concat(ss) == IF ss = <<>> THEN <<>> ELSE Head(ss) \o Concat(Tail(ss))

\* the elements of a list, as a set
Range(f) == {f[i] : i \in DOMAIN f}

\* str.split(sep) for a one-character separator
RECURSIVE SplitChar(_, _, _, _)
SplitChar(s, sep, i, cur) ==
    IF i > Len(s) THEN <<cur>>
    ELSE IF s[i] = sep THEN <<cur>> \o SplitChar(s, sep, i + 1, <<>>)
    ELSE SplitChar(s, sep, i + 1, Append(cur, s[i]))

\* os.path.basename: what follows the last "/"
RECURSIVE LastSlash(_, _)
LastSlash(s, i) == IF i = 0 THEN 0 ELSE IF s[i] = "/" THEN i ELSE LastSlash(s, i - 1)

basename(p) == SubSeq(p, LastSlash(p, Len(p)) + 1, Len(p))

(***************************************************************************)
(* static configuration                                                    *)
(***************************************************************************)

ALLOWED_COMMANDS ==
    { <<"l","s">>, <<"c","a","t">>, <<"f","i","n","d">>, <<"h","e","a","d">>, <<"t","a","i","l">>, <<"w","c">>,
      <<"g","r","e","p">>, <<"a","w","k">>, <<"t","e","e">>, <<"s","t","a","t">>, <<"t","r","e","e">>, <<"t","o","u","c","h">>,
      <<"c","p">>, <<"m","k","d","i","r">>, <<"c","h","m","o","d">>, <<"r","m">>, <<"r","m","d","i","r">>, <<"m","v">>,
      <<"p","w","d">>, <<"n","p","m">>, <<"n","o","d","e">>, <<"p","n","p","m">>, <<"s","o","r","t">>, <<"n","p","x">>,
      <<"v","i","t","e">>, <<"n","e","x","t">>, <<"t","s","c">>, <<"e","s","l","i","n","t">>, <<"j","e","s","t">>, <<"v","i","t","e","s","t">>,
      <<"g","r","a","d","l","e">>, <<"g","r","a","d","l","e","w">>, <<"j","a","v","a">>, <<"m","v","n">>, <<"m","v","n","w">>, <<"p","y","t","h","o","n">>,
      <<"p","i","p">>, <<"u","v">>, <<"u","v","x">>, <<"r","u","f","f">>, <<"m","y","p","y">>, <<"u","v","i","c","o","r","n">>,
      <<"p","y","l","i","n","t">>, <<"f","l","a","k","e","8">>, <<"p","y","t","e","s","t">>, <<"d","o","c","k","e","r">>, <<"k","u","b","e","c","t","l">>, <<"c","a","r","g","o">>,
      <<"r","u","s","t","c">>, <<"g","o">>, <<"s","w","i","f","t">>, <<"x","c","o","d","e","b","u","i","l","d">>, <<"s","o","n","a","r","-","s","c","a","n","n","e","r">>, <<"s","w","i","f","t","l","i","n","t">>,
      <<"c","l","i","p","p","y">>, <<"g","o","l","a","n","g","c","i","-","l","i","n","t">>, <<"p","s","q","l">>, <<"m","y","s","q","l">>, <<"c","u","r","l">>, <<"g","i","t">>,
      <<"p","s">>, <<"l","s","o","f">>, <<"s","l","e","e","p">>, <<"n","o","h","u","p">>, <<"p","k","i","l","l">>, <<"k","i","l","l">>,
      <<"s","y","s","t","e","m","c","t","l">>, <<"s","o","u","r","c","e">>, <<"t","r">>, <<"j","o","u","r","n","a","l","c","t","l">>, <<"n","e","t","s","t","a","t">>, <<"a","c">>,
      <<"a","c","-","m","s","g">>, <<"j","q">>, <<"r","e","a","d">>, <<"t","e","s","t">>, <<"t","r","u","e">>, <<"f","a","l","s","e">>,
      <<"p","r","i","n","t","f">>, <<"d","a","t","e">>, <<"b","a","s","e","n","a","m","e">>, <<"d","i","r","n","a","m","e">>, <<"c","u","t">>, <<"s","e","d">>,
      <<"d","i","f","f">>, <<"r","e","a","l","p","a","t","h">>, <<"r","e","a","d","l","i","n","k">>, <<"m","k","t","e","m","p">>, <<"i","d">>, <<"s","e","q">>,
      <<"e","c","h","o">>, <<"w","h","i","c","h">>, <<"j","a","r">>, <<"u","n","z","i","p">>, <<"s","t","a","r","t",".","s","h">>, <<"s","t","o","p",".","s","h">>,
      <<"r","e","s","t","a","r","t",".","s","h">>, <<"s","h","u","t","d","o","w","n",".","s","h">>, <<"s","t","a","r","t","u","p",".","s","h">>, <<"b","u","i","l","d",".","s","h">>, <<"k","c","a","d","m",".","s","h">>, <<"k","c",".","s","h">> }

COMMANDS_NEEDING_EXTRA_VALIDATION ==
    { <<"p","k","i","l","l">>, <<"c","h","m","o","d">>, <<"s","t","a","r","t",".","s","h">>, <<"r","e","s","t","a","r","t",".","s","h">>, <<"s","t","o","p",".","s","h">>,
      <<"d","o","c","k","e","r">>, <<"s","y","s","t","e","m","c","t","l">>, <<"r","m">>, <<"r","m","d","i","r">>, <<"k","i","l","l">> }

SENSITIVE_SYSTEM_DIRECTORIES ==
    { <<"/","e","t","c","/","p","a","s","s","w","d">>, <<"/","e","t","c","/","s","h","a","d","o","w">>, <<"/","e","t","c","/","s","u","d","o","e","r","s">>, <<"/","e","t","c","/","s","s","h">>,
      <<"/","e","t","c","/","s","s","l">>, <<"/","e","t","c","/","p","k","i">>, <<"/","e","t","c","/","s","e","c","u","r","i","t","y">>, <<"/","r","o","o","t">>,
      <<"/","h","o","m","e">>, <<"/","v","a","r","/","l","o","g">>, <<"/","v","a","r","/","r","u","n">>, <<"/","v","a","r","/","s","p","o","o","l">>,
      <<"/","p","r","o","c">>, <<"/","s","y","s">>, <<"/","d","e","v">>, <<"/","b","o","o","t">>,
      <<"/","l","i","b","/","f","i","r","m","w","a","r","e">>, <<"~","/",".","s","s","h">>, <<"~","/",".","g","n","u","p","g">>, <<"~","/",".","a","w","s">>,
      <<"~","/",".","c","o","n","f","i","g">>, <<".","e","n","v">>, <<".","g","i","t","/","c","o","n","f","i","g">>, <<"c","r","e","d","e","n","t","i","a","l","s">>,
      <<"s","e","c","r","e","t","s">> }


HIGH_RISK_PATH_COMMANDS ==
    { <<"c","p">>, <<"m","v">>, <<"l","n">>, <<"c","u","r","l">>, <<"w","g","e","t">>, <<"g","i","t">>, <<"d","o","c","k","e","r">>, <<"u","n","z","i","p">>, <<"j","a","r">>,
      <<"t","e","e">>, <<"p","y","t","h","o","n">>, <<"p","y","t","h","o","n","3">>, <<"n","o","d","e">>, <<"j","a","v","a">>, <<"b","a","s","h">>, <<"s","h">> }

(***************************************************************************)
(* shlex.split(s): POSIX mode, whitespace_split, no comments, no           *)
(* punctuation_chars.  A token ends only at unquoted whitespace; quotes    *)
(* are removed; a backslash escapes.  Unterminated quoting or a trailing   *)
(* backslash raises ValueError, modelled as ok = FALSE.                    *)
(*   st: " " between tokens, "a" in a word, a quote character inside       *)
(*   quotes, "ea" / "eq" after a backslash met in a word / in "..."        *)
(***************************************************************************)
RECURSIVE ShlexRun(_, _, _, _, _, _)
ShlexRun(s, i, st, tok, quoted, out) ==
    IF i > Len(s) THEN
        IF st = " " THEN [ok |-> TRUE, tokens |-> out]
        ELSE IF st = "a" THEN
            [ok |-> TRUE,
             tokens |-> IF tok # <<>> \/ quoted THEN Append(out, tok) ELSE out]
        ELSE [ok |-> FALSE, tokens |-> <<>>]
    ELSE
        LET c == s[i] IN
        IF st = " " THEN
            IF c \in Whitespace THEN ShlexRun(s, i + 1, " ", tok, quoted, out)
            ELSE IF c = "\\" THEN ShlexRun(s, i + 1, "ea", tok, quoted, out)
            ELSE IF c \in Quotes THEN ShlexRun(s, i + 1, c, tok, TRUE, out)
            ELSE ShlexRun(s, i + 1, "a", <<c>>, quoted, out)
        ELSE IF st = "a" THEN
            IF c \in Whitespace THEN
                IF tok # <<>> \/ quoted
                THEN ShlexRun(s, i + 1, " ", <<>>, FALSE, Append(out, tok))
                ELSE ShlexRun(s, i + 1, " ", tok, quoted, out)
            ELSE IF c \in Quotes THEN ShlexRun(s, i + 1, c, tok, TRUE, out)
            ELSE IF c = "\\" THEN ShlexRun(s, i + 1, "ea", tok, quoted, out)
            ELSE ShlexRun(s, i + 1, "a", Append(tok, c), quoted, out)
        ELSE IF st \in Quotes THEN
            IF c = st THEN ShlexRun(s, i + 1, "a", tok, TRUE, out)
            ELSE IF c = "\\" /\ st = "\""
            THEN ShlexRun(s, i + 1, "eq", tok, TRUE, out)
            ELSE ShlexRun(s, i + 1, st, Append(tok, c), TRUE, out)
        ELSE IF st = "ea" THEN ShlexRun(s, i + 1, "a", Append(tok, c), quoted, out)
        ELSE \* "eq": inside "...", a backslash is kept unless it escapes " or \
            IF c # "\\" /\ c # "\""
            THEN ShlexRun(s, i + 1, "\"", tok \o <<"\\", c>>, TRUE, out)
            ELSE ShlexRun(s, i + 1, "\"", Append(tok, c), TRUE, out)

shlex_split(s) == ShlexRun(s, 1, " ", <<>>, FALSE, <<>>)

(***************************************************************************)
(* re.split(r'(?<!["\'])\s*;\s*(?!["\'])', s)                               *)
(* A ";" is a delimiter exactly when the character before it and the       *)
(* character after it are not quote characters (both \s* may match the     *)
(* empty string); quote state plays no part.  The whitespace the match     *)
(* takes around the ";" is left on the pieces: every caller strips them.   *)
(***************************************************************************)
SemicolonSplits(s, i) ==
    /\ s[i] = ";"
    /\ (i = 1 \/ s[i - 1] \notin Quotes)
    /\ (i = Len(s) \/ s[i + 1] \notin Quotes)

RECURSIVE SplitSemicolonFrom(_, _, _)
SplitSemicolonFrom(s, i, cur) ==
    IF i > Len(s) THEN <<cur>>
    ELSE IF SemicolonSplits(s, i) THEN <<cur>> \o SplitSemicolonFrom(s, i + 1, <<>>)
    ELSE SplitSemicolonFrom(s, i + 1, Append(cur, s[i]))

re_split_semicolon(s) == SplitSemicolonFrom(s, 1, <<>>)

(***************************************************************************)
(* re.split(r"\s*(?:&&|\|\|)\s*", s): leftmost, non-overlapping            *)
(***************************************************************************)
RECURSIVE SplitAndOrFrom(_, _, _)
SplitAndOrFrom(s, i, cur) ==
    IF i > Len(s) THEN <<cur>>
    ELSE IF i < Len(s) /\ s[i] = s[i + 1] /\ s[i] \in {"&", "|"}
    THEN <<cur>> \o SplitAndOrFrom(s, i + 2, <<>>)
    ELSE SplitAndOrFrom(s, i + 1, Append(cur, s[i]))

re_split_and_or(s) == SplitAndOrFrom(s, 1, <<>>)

\* the pieces of a split, stripped, the empty ones dropped
RECURSIVE StripNonEmpty(_)
StripNonEmpty(ps) ==
    IF ps = <<>> THEN <<>>
    ELSE LET p == Strip(Head(ps)) IN
         IF p = <<>> THEN StripNonEmpty(Tail(ps)) ELSE <<p>> \o StripNonEmpty(Tail(ps))

RECURSIVE SplitEachOnSemicolon(_)
SplitEachOnSemicolon(segs) ==
    IF segs = <<>> THEN <<>>
    ELSE StripNonEmpty(re_split_semicolon(Head(segs))) \o SplitEachOnSemicolon(Tail(segs))

\* split_command_segments: on && and ||, then each piece on ";"
split_command_segments(command_string) ==
    SplitEachOnSemicolon(re_split_and_or(command_string))

(***************************************************************************)
(* extract_commands                                                        *)
(***************************************************************************)
ShellOperators == { <<"|">>, <<"|","|">>, <<"&","&">>, <<"&">>, <<";">> }

LoopKeywords == { <<"f","o","r">>, <<"s","e","l","e","c","t">> }

ShellKeywords ==
    { <<"i","f">>, <<"t","h","e","n">>, <<"e","l","s","e">>, <<"e","l","i","f">>, <<"f","i">>, <<"w","h","i","l","e">>, <<"u","n","t","i","l">>, <<"d","o">>,
      <<"d","o","n","e">>, <<"c","a","s","e">>, <<"e","s","a","c">>, <<"i","n">>, <<"!">>, <<"{">>, <<"}">> }

\* one iteration of "for token in tokens"; w = [expect, skip, cmds]
WalkToken(w, tok) ==
    LET has_trailing_semicolon == EndsWith(tok, <<";">>)
        token == IF has_trailing_semicolon THEN SubSeq(tok, 1, Len(tok) - 1) ELSE tok
        flagged == [w EXCEPT !.expect = (has_trailing_semicolon \/ w.expect)]
    IN  IF has_trailing_semicolon /\ token = <<>> THEN [w EXCEPT !.expect = TRUE]
        ELSE IF w.skip THEN [w EXCEPT !.skip = FALSE, !.expect = has_trailing_semicolon]
        ELSE IF token \in ShellOperators THEN [w EXCEPT !.expect = TRUE]
        ELSE IF token \in LoopKeywords THEN [w EXCEPT !.skip = TRUE]
        ELSE IF token \in ShellKeywords THEN flagged
        ELSE IF StartsWith(token, <<"-">>) THEN flagged
        ELSE IF Contains(token, <<"=">>) /\ ~StartsWith(token, <<"=">>) THEN flagged
        ELSE [w EXCEPT !.cmds = IF w.expect THEN Append(@, basename(token)) ELSE @,
                       !.expect = has_trailing_semicolon]

RECURSIVE WalkTokens(_, _)
WalkTokens(w, tokens) ==
    IF tokens = <<>> THEN w ELSE WalkTokens(WalkToken(w, Head(tokens)), Tail(tokens))

\* the commands of one segment: expect_command starts TRUE in every segment
SegmentCommands(tokens) ==
    WalkTokens([expect |-> TRUE, skip |-> FALSE, cmds |-> <<>>], tokens).cmds

\* "for segment in segments": a segment shlex cannot split makes the whole
\* function return [] (ok = FALSE carries that to the caller)
RECURSIVE ExtractFromSegments(_, _)
ExtractFromSegments(segs, acc) ==
    IF segs = <<>> THEN [ok |-> TRUE, cmds |-> acc]
    ELSE LET segment == Strip(Head(segs)) IN
         IF segment = <<>> THEN ExtractFromSegments(Tail(segs), acc)
         ELSE LET r == shlex_split(segment) IN
              IF ~r.ok THEN [ok |-> FALSE, cmds |-> <<>>]
              ELSE ExtractFromSegments(Tail(segs), acc \o SegmentCommands(r.tokens))

extract_commands(command_string) ==
    ExtractFromSegments(re_split_semicolon(command_string), <<>>).cmds

\* whether extract_commands took its "except ValueError: return []" exit
extract_commands_failed(command_string) ==
    ~ExtractFromSegments(re_split_semicolon(command_string), <<>>).ok

(***************************************************************************)
(* extract_substitution_commands.  Indices are the 0-based indices of the  *)
(* source; At(s, j) is command_string[j].                                  *)
(***************************************************************************)
At(s, j) == s[j + 1]

\* the inner "while j < len(command_string) and depth > 0" of the $( scan;
\* the result is the pair of j and depth at the loop's exit
RECURSIVE DollarScan(_, _, _, _, _)
DollarScan(s, j, depth, in_single_quote, in_double_quote) ==
    IF ~(j < Len(s) /\ depth > 0) THEN [j |-> j, depth |-> depth]
    ELSE
        LET ch == At(s, j) IN
        IF ch = "'" /\ ~in_double_quote
        THEN DollarScan(s, j + 1, depth, ~in_single_quote, in_double_quote)
        ELSE IF ch = "\"" /\ ~in_single_quote
        THEN DollarScan(s, j + 1, depth, in_single_quote, ~in_double_quote)
        ELSE IF ~in_single_quote /\ ~in_double_quote
        THEN IF ch = "(" /\ Slice(s, j - 1, j + 1) # <<"$","(">>
             THEN DollarScan(s, j + 1, depth + 1, in_single_quote, in_double_quote)
             ELSE IF Slice(s, j, j + 2) = <<"$","(">>
             THEN DollarScan(s, j + 2, depth + 1, in_single_quote, in_double_quote)
             ELSE IF ch = ")"
             THEN DollarScan(s, j + 1, depth - 1, in_single_quote, in_double_quote)
             ELSE DollarScan(s, j + 1, depth, in_single_quote, in_double_quote)
        ELSE DollarScan(s, j + 1, depth, in_single_quote, in_double_quote)

\* the "while j < len(command_string) and depth > 0" of the <( >( scan,
\* which tracks no quotes
RECURSIVE ParenScan(_, _, _)
ParenScan(s, j, depth) ==
    IF ~(j < Len(s) /\ depth > 0) THEN [j |-> j, depth |-> depth]
    ELSE IF At(s, j) = "(" THEN ParenScan(s, j + 1, depth + 1)
    ELSE IF At(s, j) = ")" THEN ParenScan(s, j + 1, depth - 1)
    ELSE ParenScan(s, j + 1, depth)

\* index of the first backtick at or after i, or Len(s) when there is none
RECURSIVE NextBacktick(_, _)
NextBacktick(s, i) ==
    IF i >= Len(s) THEN Len(s) ELSE IF At(s, i) = Backtick THEN i ELSE NextBacktick(s, i + 1)

RECURSIVE extract_substitution_commands(_)
RECURSIVE DollarSubstFrom(_, _)
RECURSIVE BacktickSubstFrom(_, _)
RECURSIVE ProcSubstFrom(_, _)

\* commands.extend(extract_commands(inner));
\* commands.extend(extract_substitution_commands(inner))
InnerCommands(inner) == extract_commands(inner) \o extract_substitution_commands(inner)

\* "while i < len(command_string)": the $( ... ) substitutions
DollarSubstFrom(s, i) ==
    IF i >= Len(s) THEN <<>>
    ELSE IF Slice(s, i, i + 2) = <<"$","(">>
    THEN LET start == i + 2
             r == DollarScan(s, start, 1, FALSE, FALSE)
         IN  (IF r.depth = 0 THEN InnerCommands(Slice(s, start, r.j - 1)) ELSE <<>>)
             \o DollarSubstFrom(s, r.j)
    ELSE DollarSubstFrom(s, i + 1)

\* re.compile of a backtick, ([^backtick]*), a backtick; finditer gives the
\* successive pairs of backticks
BacktickSubstFrom(s, i) ==
    LET open == NextBacktick(s, i)
        close == NextBacktick(s, open + 1)
    IN  IF open >= Len(s) \/ close >= Len(s) THEN <<>>
        ELSE InnerCommands(Slice(s, open + 1, close)) \o BacktickSubstFrom(s, close + 1)

\* re.compile(r"[<>]\(").finditer: every <( and >( of the string
ProcSubstFrom(s, i) ==
    IF i + 1 >= Len(s) THEN <<>>
    ELSE IF At(s, i) \in {"<", ">"} /\ At(s, i + 1) = "("
    THEN LET start == i + 2
             r == ParenScan(s, start, 1)
         IN  (IF r.depth = 0 THEN InnerCommands(Slice(s, start, r.j - 1)) ELSE <<>>)
             \o ProcSubstFrom(s, i + 2)
    ELSE ProcSubstFrom(s, i + 1)

extract_substitution_commands(command_string) ==
    DollarSubstFrom(command_string, 0)
        \o BacktickSubstFrom(command_string, 0)
        \o ProcSubstFrom(command_string, 0)

(***************************************************************************)
(* The per-command validators.  A validator's (is_allowed, reason) is the  *)
(* record Allowed or Rejected(reason); Raised(e) is an exception the       *)
(* validator does not catch.  A reason is the source's message without     *)
(* the values formatted into it.                                           *)
(***************************************************************************)
Allowed == [v |-> "allow", reason |-> ""]

Rejected(reason) == [v |-> "block", reason |-> reason]

Raised(exception) == [v |-> "raise", reason |-> exception]

\* [t for t in tokens[1:] if not t.startswith("-")]
NonFlagArgs(tokens) == SelectSeq(Tail(tokens), LAMBDA t : ~StartsWith(t, <<"-">>))

\* str.upper() and str.lower() on the ASCII letters
LowerLetters ==
    <<"a","b","c","d","e","f","g","h","i","j","k","l","m",
      "n","o","p","q","r","s","t","u","v","w","x","y","z">>

UpperLetters ==
    <<"A","B","C","D","E","F","G","H","I","J","K","L","M",
      "N","O","P","Q","R","S","T","U","V","W","X","Y","Z">>

UpperChar(c) ==
    IF \E k \in 1..26 : LowerLetters[k] = c
    THEN UpperLetters[CHOOSE k \in 1..26 : LowerLetters[k] = c] ELSE c

LowerChar(c) ==
    IF \E k \in 1..26 : UpperLetters[k] = c
    THEN LowerLetters[CHOOSE k \in 1..26 : UpperLetters[k] = c] ELSE c

Upper(s) == [i \in 1..Len(s) |-> UpperChar(s[i])]

Lower(s) == [i \in 1..Len(s) |-> LowerChar(s[i])]

\* int(s): surrounding whitespace, an optional sign, digits with single
\* underscores between them; ok = FALSE is the ValueError
Digits == <<"0","1","2","3","4","5","6","7","8","9">>

IsDigit(c) == \E k \in 1..10 : Digits[k] = c

DigitValue(c) == (CHOOSE k \in 1..10 : Digits[k] = c) - 1

RECURSIVE DecimalValue(_, _, _)
DecimalValue(s, i, acc) ==
    IF i > Len(s) THEN acc
    ELSE IF s[i] = "_" THEN DecimalValue(s, i + 1, acc)
    ELSE DecimalValue(s, i + 1, 10 * acc + DigitValue(s[i]))

IsDecimalLiteral(s) ==
    /\ s # <<>>
    /\ IsDigit(s[1]) /\ IsDigit(s[Len(s)])
    /\ \A i \in 1..Len(s) : IsDigit(s[i]) \/ (s[i] = "_" /\ s[i - 1] # "_")

ParseInt(str) ==
    LET s == Strip(str)
        signed == s # <<>> /\ s[1] \in {"+", "-"}
        body == IF signed THEN Tail(s) ELSE s
    IN  IF IsDecimalLiteral(body)
        THEN [ok |-> TRUE,
              val |-> IF signed /\ s[1] = "-"
                      THEN 0 - DecimalValue(body, 1, 0) ELSE DecimalValue(body, 1, 0)]
        ELSE [ok |-> FALSE, val |-> 0]

\* str.split()[0]: the first whitespace-delimited word; none raises IndexError
FirstWord(s) ==
    LET l == LStrip(s)
        ends == {i \in 1..Len(l) : l[i] \in Whitespace}
    IN  IF ends = {} THEN l
        ELSE SubSeq(l, 1, (CHOOSE i \in ends : \A k \in ends : i <= k) - 1)

allowed_process_names ==
    { <<"n","o","d","e">>, <<"n","p","m">>, <<"n","p","x">>, <<"v","i","t","e">>, <<"n","e","x","t">>, <<"p","n","p","m">>, <<"u","v","i","c","o","r","n">>, <<"j","a","v","a">> }

validate_pkill_command(command_string) ==
    LET r == shlex_split(command_string)
        args == NonFlagArgs(r.tokens)
        last == args[Len(args)]
    IN  IF ~r.ok THEN Rejected("Could not parse pkill command")
        ELSE IF r.tokens = <<>> THEN Rejected("Empty pkill command")
        ELSE IF args = <<>> THEN Rejected("pkill requires a process name")
        ELSE IF Contains(last, <<" ">>) /\ Strip(last) = <<>> THEN Raised("IndexError")
        ELSE LET target == IF Contains(last, <<" ">>) THEN FirstWord(last) ELSE last
             IN  IF target \in allowed_process_names THEN Allowed
                 ELSE Rejected("pkill only allowed for dev processes")

\* re.match(r"^[ugoa]*\+x$", mode): "$" also matches before a final newline
ModeMatchesPlusX(mode) ==
    LET m == IF EndsWith(mode, <<"\n">>) THEN SubSeq(mode, 1, Len(mode) - 1) ELSE mode
    IN  /\ EndsWith(m, <<"+","x">>)
        /\ \A i \in 1..(Len(m) - 2) : m[i] \in {"u", "g", "o", "a"}

validate_chmod_command(command_string) ==
    LET r == shlex_split(command_string)
        rest == Tail(r.tokens)
    IN  IF ~r.ok THEN Rejected("Could not parse chmod command")
        ELSE IF r.tokens = <<>> \/ r.tokens[1] # <<"c","h","m","o","d">> THEN Rejected("Not a chmod command")
        ELSE IF \E i \in 1..Len(rest) : StartsWith(rest[i], <<"-">>)
        THEN Rejected("chmod flags are not allowed")
        ELSE IF rest = <<>> THEN Rejected("chmod requires a mode")
        ELSE IF Len(rest) < 2 THEN Rejected("chmod requires at least one file")
        ELSE IF ~ModeMatchesPlusX(rest[1]) THEN Rejected("chmod only allowed with +x mode")
        ELSE Allowed

\* a variant: the system directories left off the list
rm_dangerous_patterns_NoSystemDirs ==
    << <<"/","*">>, <<".",".","/","*">>, <<"/",".",".">>, <<"/",".">>, <<".","*">>, <<"*","*","/">>, <<"~","/","*">> >>

rm_dangerous_patterns ==
    << <<"/","*">>, <<".",".","/","*">>, <<"/",".",".">>, <<"/",".">>, <<".","*">>, <<"*","*","/">>, <<"~","/","*">>,
       <<"/","h","o","m","e">>, <<"/","e","t","c">>, <<"/","u","s","r">>, <<"/","v","a","r">>, <<"/","b","i","n">>, <<"/","s","b","i","n">>, <<"/","l","i","b">>,
       <<"/","b","o","o","t">>, <<"/","d","e","v">>, <<"/","p","r","o","c">>, <<"/","s","y","s">>, <<"/","r","o","o","t">> >>

validate_rm_command(command_string) ==
    LET r == shlex_split(command_string)
        rest == Tail(r.tokens)
        flags == SelectSeq(rest, LAMBDA t : StartsWith(t, <<"-">>))
        targets == NonFlagArgs(r.tokens)
        is_recursive ==
            \E i \in 1..Len(flags) :
                Contains(flags[i], <<"r">>) \/ Contains(flags[i], <<"R">>)
                    \/ flags[i] = <<"-","-","r","e","c","u","r","s","i","v","e">>
        Dangerous(target) ==
            \E k \in 1..Len(rm_dangerous_patterns) :
                LET pattern == rm_dangerous_patterns[k] IN
                target = pattern \/ EndsWith(target, pattern) \/ StartsWith(target, pattern)
        Hidden(target) ==
            is_recursive /\ (StartsWith(target, <<".","*">>) \/ Contains(target, <<"/",".",".">>))
        \* the first target the "for target in targets" loop returns at
        bad == {i \in 1..Len(targets) : Dangerous(targets[i]) \/ Hidden(targets[i])}
        first == CHOOSE i \in bad : \A k \in bad : i <= k
    IN  IF ~r.ok THEN Rejected("Could not parse rm command")
        ELSE IF r.tokens = <<>> \/ r.tokens[1] # <<"r","m">> THEN Rejected("Not an rm command")
        ELSE IF targets = <<>> THEN Rejected("rm requires at least one target")
        ELSE IF bad # {} THEN
            IF Dangerous(targets[first]) THEN Rejected("rm blocked: dangerous pattern")
            ELSE Rejected("rm blocked: recursive deletion of hidden files/directories not allowed")
        ELSE IF is_recursive /\ \E i \in 1..Len(targets) : Contains(targets[i], <<"*">>)
        THEN Rejected("rm blocked: recursive deletion with wildcard not allowed")
        ELSE Allowed

\* a variant: the current directory left off the list
rmdir_dangerous_patterns_NoDot == { <<"/">>, <<"/","*">>, <<".",".","/","*">>, <<"~">>, <<"~","/","*">> }

rmdir_dangerous_patterns == { <<"/">>, <<"/","*">>, <<".",".","/","*">>, <<"~">>, <<"~","/","*">>, <<".">> }

validate_rmdir_command(command_string) ==
    LET r == shlex_split(command_string)
        targets == NonFlagArgs(r.tokens)
        Listed(target) == target \in rmdir_dangerous_patterns
        Traversal(target) == Contains(target, <<".",".">>) /\ ~StartsWith(target, <<".","/">>)
        bad == {i \in 1..Len(targets) : Listed(targets[i]) \/ Traversal(targets[i])}
        first == CHOOSE i \in bad : \A k \in bad : i <= k
    IN  IF ~r.ok THEN Rejected("Could not parse rmdir command")
        ELSE IF r.tokens = <<>> \/ r.tokens[1] # <<"r","m","d","i","r">> THEN Rejected("Not an rmdir command")
        ELSE IF targets = <<>> THEN Rejected("rmdir requires at least one target")
        ELSE IF bad # {} THEN
            IF Listed(targets[first]) THEN Rejected("rmdir blocked: dangerous pattern")
            ELSE Rejected("rmdir blocked: path traversal not allowed")
        ELSE Allowed

allowed_signals ==
    { <<"T","E","R","M">>, <<"K","I","L","L">>, <<"I","N","T">>, <<"H","U","P">>, <<"U","S","R","1">>, <<"U","S","R","2">>, <<"Q","U","I","T">>, <<"S","T","O","P">>, <<"C","O","N","T">>,
      <<"1","5">>, <<"9">>, <<"2">>, <<"1">>, <<"1","0">>, <<"1","2">>, <<"3">>, <<"1","9">>, <<"1","8">>,
      <<"S","I","G","T","E","R","M">>, <<"S","I","G","K","I","L","L">>, <<"S","I","G","I","N","T">>, <<"S","I","G","H","U","P">>, <<"S","I","G","U","S","R","1">>, <<"S","I","G","U","S","R","2">> }

\* "while i < len(tokens)" of validate_kill_command, i 1-based here; signal
\* <<>> stands for None and for '', which the source tests alike ("if signal")
RECURSIVE KillScan(_, _, _, _)
KillScan(tokens, i, signal, pids) ==
    IF i > Len(tokens) THEN [listing |-> FALSE, signal |-> signal, pids |-> pids]
    ELSE
        LET token == tokens[i] IN
        IF StartsWith(token, <<"-">>) THEN
            IF token = <<"-","l">> \/ token = <<"-","-","l","i","s","t">>
            THEN [listing |-> TRUE, signal |-> signal, pids |-> pids]
            ELSE IF token = <<"-","s">> /\ i + 1 <= Len(tokens)
            THEN KillScan(tokens, i + 2, Upper(tokens[i + 1]), pids)
            ELSE LET sig == Upper(Tail(token)) IN
                 KillScan(tokens, i + 1, IF sig # <<>> THEN sig ELSE signal, pids)
        ELSE KillScan(tokens, i + 1, signal, Append(pids, token))

\* the verdict of "for pid in pids" on one pid: "" when the loop goes on
KillPidVerdict(pid) ==
    LET n == ParseInt(pid) IN
    IF StartsWith(pid, <<"%">>) THEN ""
    ELSE IF ~n.ok THEN ""
    ELSE IF n.val = 1 THEN "kill blocked: cannot kill PID 1 (init)"
    ELSE IF n.val < 0 THEN "kill blocked: negative PID (process group) not allowed"
    ELSE IF n.val < 100 THEN "kill blocked: system process PID not allowed"
    ELSE ""

validate_kill_command(command_string) ==
    LET r == shlex_split(command_string)
        k == KillScan(r.tokens, 2, <<>>, <<>>)
        bad == {i \in 1..Len(k.pids) : KillPidVerdict(k.pids[i]) # ""}
        first == CHOOSE i \in bad : \A j \in bad : i <= j
    IN  IF ~r.ok THEN Rejected("Could not parse kill command")
        ELSE IF r.tokens = <<>> \/ r.tokens[1] # <<"k","i","l","l">> THEN Rejected("Not a kill command")
        ELSE IF k.listing THEN Allowed
        ELSE IF k.pids = <<>> THEN Rejected("kill requires at least one PID")
        ELSE IF k.signal # <<>> /\ k.signal \notin allowed_signals
        THEN Rejected("kill blocked: signal not in allowed signals")
        ELSE IF bad # {} THEN Rejected(KillPidVerdict(k.pids[first]))
        ELSE Allowed

docker_system_directories == { <<"/">>, <<"/","h","o","m","e">>, <<"/","e","t","c">>, <<"/","u","s","r">>, <<"/","v","a","r">> }

validate_docker_command(command_string) ==
    LET r == shlex_split(command_string)
        tokens == r.tokens
        BadMount(i) ==
            /\ tokens[i] \in { <<"-","v">>, <<"-","-","v","o","l","u","m","e">> }
            /\ i + 1 <= Len(tokens)
            /\ Contains(tokens[i + 1], <<":">>)
            /\ SplitChar(tokens[i + 1], ":", 1, <<>>)[1] \in docker_system_directories
    IN  IF ~r.ok THEN Rejected("Could not parse docker command")
        ELSE IF tokens = <<>> \/ tokens[1] # <<"d","o","c","k","e","r">> THEN Rejected("Not a docker command")
        ELSE IF \E i \in 1..Len(tokens) : BadMount(i)
        THEN Rejected("Docker volume mount of system directory not allowed")
        ELSE Allowed

allowed_operations ==
    { <<"s","t","a","t","u","s">>, <<"s","h","o","w">>, <<"l","i","s","t","-","u","n","i","t","s">>, <<"l","i","s","t","-","u","n","i","t","-","f","i","l","e","s">>, <<"i","s","-","a","c","t","i","v","e">>, <<"i","s","-","e","n","a","b","l","e","d">> }

validate_systemctl_command(command_string) ==
    LET r == shlex_split(command_string)
        args == NonFlagArgs(r.tokens)
    IN  IF ~r.ok THEN Rejected("Could not parse systemctl command")
        ELSE IF r.tokens = <<>> \/ r.tokens[1] # <<"s","y","s","t","e","m","c","t","l">>
        THEN Rejected("Not a systemctl command")
        ELSE IF args = <<>> \/ args[1] \notin allowed_operations
        THEN Rejected("systemctl operation not allowed")
        ELSE Allowed

validate_init_script(command_string) ==
    LET r == shlex_split(command_string)
        script == r.tokens[1]
    IN  IF ~r.ok THEN Rejected("Could not parse environment setup script command")
        ELSE IF r.tokens = <<>> THEN Rejected("Empty command")
        ELSE IF \/ script = <<".","/","s","t","a","r","t",".","s","h">> \/ EndsWith(script, <<"/","s","t","a","r","t",".","s","h">>)
                \/ script = <<".","/","r","e","s","t","a","r","t",".","s","h">> \/ EndsWith(script, <<"/","r","e","s","t","a","r","t",".","s","h">>)
                \/ script = <<".","/","s","t","o","p",".","s","h">> \/ EndsWith(script, <<"/","s","t","o","p",".","s","h">>)
        THEN Allowed
        ELSE Rejected("Only ./start.sh, ./restart.sh, ./stop.sh is allowed")

\* get_command_for_validation: the first segment whose commands hold cmd, else ""
get_command_for_validation(cmd, segments) ==
    LET hits == {i \in 1..Len(segments) : cmd \in Range(extract_commands(segments[i]))}
    IN  IF hits = {} THEN <<>>
        ELSE segments[CHOOSE i \in hits : \A k \in hits : i <= k]

\* the "if cmd == ... elif ..." dispatch of bash_security_hook
ExtraValidation(cmd, cmd_segment) ==
    IF cmd = <<"p","k","i","l","l">> THEN validate_pkill_command(cmd_segment)
    ELSE IF cmd = <<"c","h","m","o","d">> THEN validate_chmod_command(cmd_segment)
    ELSE IF cmd \in { <<"s","t","a","r","t",".","s","h">>, <<"r","e","s","t","a","r","t",".","s","h">>, <<"s","t","o","p",".","s","h">> }
    THEN validate_init_script(cmd_segment)
    ELSE IF cmd = <<"d","o","c","k","e","r">> THEN validate_docker_command(cmd_segment)
    ELSE IF cmd = <<"s","y","s","t","e","m","c","t","l">> THEN validate_systemctl_command(cmd_segment)
    ELSE IF cmd = <<"r","m">> THEN validate_rm_command(cmd_segment)
    ELSE IF cmd = <<"r","m","d","i","r">> THEN validate_rmdir_command(cmd_segment)
    ELSE IF cmd = <<"k","i","l","l">> THEN validate_kill_command(cmd_segment)
    ELSE Allowed

(***************************************************************************)
(* The environment of path resolution: the home directory and password     *)
(* database os.path.expanduser reads, and the symbolic links of the file   *)
(* system Path.resolve follows.  A path is split into its components for   *)
(* resolution; only symbolic links matter to a non-strict resolve.         *)
(***************************************************************************)
HomeDir == <<"/","h","o","m","e","/","a","g","e","n","t">>

\* ~user for the users of the password database
UserHomes == { <<<<"r","o","o","t">>, <<"/","r","o","o","t">>>> }

\* the temporary directory validate_path_within_project allows
TmpDir == <<"/","t","m","p">>

\* the symbolic links: <<path of the link, its target as readlink gives it>>
SymbolicLinks ==
    { <<<<"/","p","r","o","j","/","l","n","k">>, <<"/","e","t","c">>>>,
      <<<<"/","p","r","o","j","/","l","o","o","p">>, <<"l","o","o","p">>>> }

IsLink(path) == \E l \in SymbolicLinks : l[1] = path

ReadLink(path) == (CHOOSE l \in SymbolicLinks : l[1] = path)[2]

\* os.path.expanduser
expanduser(path) ==
    IF ~StartsWith(path, <<"~">>) THEN path
    ELSE
        LET slashes == {i \in 1..Len(path) : path[i] = "/"}
            i == IF slashes = {} THEN Len(path) + 1
                 ELSE CHOOSE k \in slashes : \A m \in slashes : k <= m
            user == SubSeq(path, 2, i - 1)
            rest == SubSeq(path, i, Len(path))
            known == \E u \in UserHomes : u[1] = user
            userhome == IF user = <<>> THEN HomeDir
                        ELSE (CHOOSE u \in UserHomes : u[1] = user)[2]
        IN  IF user # <<>> /\ ~known THEN path ELSE userhome \o rest

\* os.path.isabs
isabs(path) == StartsWith(path, <<"/">>)

\* the components of a path, the empty ones ("//", a leading "/") included
Components(path) == SplitChar(path, "/", 1, <<>>)

\* the path of a list of components below the root
RECURSIVE JoinComponents(_)
JoinComponents(comps) ==
    IF comps = <<>> THEN <<>> ELSE <<"/">> \o Head(comps) \o JoinComponents(Tail(comps))

AbsPath(comps) == IF comps = <<>> THEN <<"/">> ELSE JoinComponents(comps)

(***************************************************************************)
(* posixpath._joinrealpath, non-strict: path is the resolved directory so  *)
(* far (components below the root), rest the components still to walk,     *)
(* seen the links being resolved.  ok = FALSE is the symlink loop, where   *)
(* the source returns join(newpath, rest).                                 *)
(***************************************************************************)
RECURSIVE JoinRealPath(_, _, _)
JoinRealPath(path, rest, seen) ==
    IF rest = <<>> THEN [path |-> path, ok |-> TRUE]
    ELSE
        LET name == Head(rest)
            more == Tail(rest)
            newpath == Append(path, name)
        IN  IF name = <<>> \/ name = <<".">> THEN JoinRealPath(path, more, seen)
            ELSE IF name = <<".",".">>
            THEN JoinRealPath(IF path = <<>> THEN path ELSE SubSeq(path, 1, Len(path) - 1),
                              more, seen)
            ELSE IF ~IsLink(AbsPath(newpath)) THEN JoinRealPath(newpath, more, seen)
            ELSE IF AbsPath(newpath) \in seen
            THEN [path |-> newpath \o more, ok |-> FALSE]
            ELSE
                LET target == ReadLink(AbsPath(newpath))
                    r == JoinRealPath(IF isabs(target) THEN <<>> ELSE path,
                                      Components(target),
                                      seen \cup {AbsPath(newpath)})
                IN  IF ~r.ok THEN [path |-> r.path \o more, ok |-> FALSE]
                    ELSE JoinRealPath(r.path, more, seen)

\* posixpath.normpath of the components of an absolute path
RECURSIVE NormPath(_, _)
NormPath(comps, acc) ==
    IF comps = <<>> THEN acc
    ELSE LET name == Head(comps) IN
         IF name = <<>> \/ name = <<".">> THEN NormPath(Tail(comps), acc)
         ELSE IF name = <<".",".">>
         THEN NormPath(Tail(comps), IF acc = <<>> THEN acc ELSE SubSeq(acc, 1, Len(acc) - 1))
         ELSE NormPath(Tail(comps), Append(acc, name))

\* os.path.realpath of an absolute path: abspath(_joinrealpath(...)), where
\* abspath normalizes what a symlink loop left unresolved
realpath(abs) ==
    LET r == JoinRealPath(<<>>, Components(abs), {}) IN
    IF r.ok THEN r.path ELSE NormPath(r.path, <<>>)

\* os.stat fails with ELOOP: following the path runs into a symlink loop
stat_eloop(comps) == ~JoinRealPath(<<>>, comps, {}).ok

\* Path.resolve(): up to Python 3.12 it raises RuntimeError when the path it
\* resolved to cannot be followed for a symlink loop; from 3.13 on it returns
\* that path.  eloop_raises tells which interpreter runs the hook.
resolve(abs, eloop_raises) ==
    [path |-> realpath(abs), raised |-> eloop_raises /\ stat_eloop(realpath(abs))]

\* PurePath.relative_to succeeds: other is path or one of its parents
IsRelativeTo(path, other) ==
    Len(path) >= Len(other) /\ SubSeq(path, 1, Len(other)) = other

(***************************************************************************)
(* validate_path_within_project.  The RuntimeError of a symlink loop is    *)
(* not caught by "except (ValueError, OSError)"; the ValueError of an      *)
(* embedded NUL is.                                                        *)
(***************************************************************************)
validate_path_within_project(path, project_dir, allow_tmp, eloop_raises) ==
    LET project_resolved == resolve(project_dir, eloop_raises)
        expanded_path == expanduser(path)
        joined == IF isabs(expanded_path) THEN expanded_path
                  ELSE project_dir \o <<"/">> \o expanded_path
        path_resolved == resolve(joined, eloop_raises)
        tmp_dir == resolve(TmpDir, eloop_raises)
    IN  IF path = <<>> THEN Rejected("Invalid path type")
        ELSE IF project_resolved.raised THEN Raised("RuntimeError")
        ELSE IF Nul \in Range(joined) THEN Rejected("Cannot validate path")
        ELSE IF path_resolved.raised THEN Raised("RuntimeError")
        ELSE IF allow_tmp /\ tmp_dir.raised THEN Raised("RuntimeError")
        ELSE IF allow_tmp /\ IsRelativeTo(path_resolved.path, tmp_dir.path) THEN Allowed
        ELSE IF IsRelativeTo(path_resolved.path, project_resolved.path) THEN Allowed
        ELSE Rejected("Path escapes project directory")

\* validate_cp_source_path
cp_sensitive_names == { <<"c","r","e","d","e","n","t","i","a","l","s">>, <<"s","e","c","r","e","t","s">>, <<".","e","n","v">> }

validate_cp_source_path(source_path) ==
    LET expanded_path == expanduser(source_path)
        path_lower == Lower(source_path)
        Hit(sensitive) ==
            LET expanded_sensitive == expanduser(sensitive) IN
            \/ expanded_path = expanded_sensitive
            \/ StartsWith(expanded_path, expanded_sensitive \o <<"/">>)
            \/ /\ sensitive \in cp_sensitive_names
               /\ Contains(path_lower, sensitive)
               /\ ~StartsWith(path_lower, <<".","/">>)
               /\ (StartsWith(source_path, <<"/">>) \/ StartsWith(source_path, <<"~">>))
    IN  IF source_path = <<>> THEN Rejected("Empty source path")
        ELSE IF \E sensitive \in SENSITIVE_SYSTEM_DIRECTORIES : Hit(sensitive)
        THEN Rejected("cp blocked: cannot copy from sensitive path")
        ELSE Allowed

(***************************************************************************)
(* extract_file_paths_from_command                                         *)
(***************************************************************************)
file_operation_commands ==
    { <<"c","a","t">>, <<"c","p">>, <<"m","v">>, <<"r","m">>, <<"r","m","d","i","r">>, <<"m","k","d","i","r">>, <<"c","h","m","o","d">>, <<"t","o","u","c","h">>, <<"l","s">>,
      <<"f","i","n","d">>, <<"h","e","a","d">>, <<"t","a","i","l">>, <<"t","e","e">>, <<"s","t","a","t">>, <<"g","r","e","p">>, <<"a","w","k">>, <<"w","c">>, <<"l","n">> }

\* output_commands: the flags after which the next token is an output path
output_flags(cmd) ==
    IF cmd = <<"c","u","r","l">> THEN { <<"-","o">>, <<"-","-","o","u","t","p","u","t">>, <<"-","O">> }
    ELSE IF cmd = <<"w","g","e","t">> THEN { <<"-","O">>, <<"-","-","o","u","t","p","u","t","-","d","o","c","u","m","e","n","t">> }
    ELSE IF cmd = <<"u","n","z","i","p">> THEN { <<"-","d">> }
    ELSE IF cmd = <<"j","a","r">> THEN { <<"-","C">> }
    ELSE IF cmd = <<"g","i","t">> THEN { <<"c","l","o","n","e">>, <<"-","-","w","o","r","k","-","t","r","e","e">>, <<"-","-","g","i","t","-","d","i","r">> }
    ELSE {}

output_commands == { <<"c","u","r","l">>, <<"w","g","e","t">>, <<"u","n","z","i","p">>, <<"j","a","r">>, <<"g","i","t">> }

script_commands == { <<"p","y","t","h","o","n">>, <<"p","y","t","h","o","n","3">>, <<"n","o","d","e">>, <<"j","a","v","a">>, <<"b","a","s","h">>, <<"s","h">> }

path_operand_commands == { <<"r","m">>, <<"r","m","d","i","r">>, <<"m","k","d","i","r">>, <<"c","h","m","o","d">>, <<"t","o","u","c","h">>, <<"l","n">> }

redirection_tokens == { <<">">>, <<">",">">>, <<"<">>, <<"|">>, <<"2",">">>, <<"&",">">>, <<"2",">","&","1">> }

\* "if cmd in output_commands: while i < len(tokens)", i 1-based here
RECURSIVE OutputPaths(_, _, _)
OutputPaths(cmd, tokens, i) ==
    IF i > Len(tokens) THEN <<>>
    ELSE
        LET token == tokens[i] IN
        IF token \in output_flags(cmd) /\ i + 1 <= Len(tokens)
        THEN <<tokens[i + 1]>> \o OutputPaths(cmd, tokens, i + 2)
        ELSE IF /\ ~StartsWith(token, <<"-">>)
                /\ cmd \in { <<"u","n","z","i","p">>, <<"j","a","r">> }
                /\ (Contains(token, <<"/">>) \/ StartsWith(token, <<".">>))
        THEN <<token>> \o OutputPaths(cmd, tokens, i + 1)
        ELSE OutputPaths(cmd, tokens, i + 1)

\* "elif cmd in script_commands": the first non-flag token, if it looks like a path
ScriptPaths(tokens) ==
    LET args == NonFlagArgs(tokens) IN
    IF args # <<>> /\ (\/ Contains(args[1], <<"/">>) \/ StartsWith(args[1], <<".">>)
                       \/ StartsWith(args[1], <<"~">>))
    THEN <<args[1]>> ELSE <<>>

\* "elif cmd in file_operation_commands: while i < len(tokens)"
RECURSIVE FileOperationPaths(_, _, _, _)
FileOperationPaths(cmd, tokens, i, skip_next) ==
    IF i > Len(tokens) THEN <<>>
    ELSE
        LET token == tokens[i]
            is_path ==
                \/ StartsWith(token, <<"/">>) \/ StartsWith(token, <<"~","/">>)
                \/ StartsWith(token, <<".","/">>) \/ StartsWith(token, <<".",".","/">>)
                \/ Contains(token, <<"/">>)
                \/ (~StartsWith(token, <<"-">>) /\ cmd \in path_operand_commands)
        IN  IF skip_next THEN FileOperationPaths(cmd, tokens, i + 1, FALSE)
            ELSE IF StartsWith(token, <<"-">>) THEN FileOperationPaths(cmd, tokens, i + 1, FALSE)
            ELSE IF token \in redirection_tokens
            THEN FileOperationPaths(cmd, tokens, i + 1, TRUE)
            ELSE (IF is_path THEN <<token>> ELSE <<>>)
                     \o FileOperationPaths(cmd, tokens, i + 1, FALSE)

\* "for j, token in enumerate(tokens): if token in (">", ">>") and j + 1 < len(tokens)"
RECURSIVE OutputRedirections(_, _)
OutputRedirections(tokens, j) ==
    IF j >= Len(tokens) THEN <<>>
    ELSE (IF tokens[j] \in { <<">">>, <<">",">">> } THEN <<tokens[j + 1]>> ELSE <<>>)
             \o OutputRedirections(tokens, j + 1)

extract_file_paths_from_command(command_string) ==
    LET r == shlex_split(command_string)
        tokens == r.tokens
        cmd == basename(tokens[1])
    IN  IF ~r.ok \/ tokens = <<>> THEN <<>>
        ELSE (IF cmd \in output_commands THEN OutputPaths(cmd, tokens, 2)
              ELSE IF cmd \in script_commands THEN ScriptPaths(tokens)
              ELSE IF cmd \in file_operation_commands
              THEN FileOperationPaths(cmd, tokens, 2, FALSE)
              ELSE <<>>)
             \o OutputRedirections(tokens, 1)

(***************************************************************************)
(* The path stage of bash_security_hook                                    *)
(***************************************************************************)

\* a verdict of validate_path_within_project, as the hook reports it
Blocked(r, prefix) ==
    IF r.v = "block" THEN Rejected(prefix \o r.reason) ELSE r

\* "for path in file_paths": the first path that does not validate decides
RECURSIVE ValidateAll(_, _, _, _)
ValidateAll(paths, project_dir, eloop_raises, prefix) ==
    IF paths = <<>> THEN Allowed
    ELSE LET r == validate_path_within_project(Head(paths), project_dir, TRUE, eloop_raises)
         IN  IF r.v # "allow" THEN Blocked(r, prefix)
             ELSE ValidateAll(Tail(paths), project_dir, eloop_raises, prefix)

\* "elif cmd_base == "cp": for src in sources": inside project or /tmp passes,
\* anything else goes to the deny-list of validate_cp_source_path
RECURSIVE ValidateCpSources(_, _, _)
ValidateCpSources(sources, project_dir, eloop_raises) ==
    IF sources = <<>> THEN Allowed
    ELSE LET src == Head(sources)
             r == validate_path_within_project(src, project_dir, TRUE, eloop_raises)
             d == validate_cp_source_path(src)
         IN  IF r.v = "raise" THEN r
             ELSE IF r.v = "block" /\ d.v = "block" THEN Blocked(d, "Bash command blocked: ")
             ELSE ValidateCpSources(Tail(sources), project_dir, eloop_raises)

\* "if cmd_base in {"cp", "mv"}": the tokens of the whole command string
CpMvPaths(tokens) ==
    SelectSeq(Tail(tokens),
              LAMBDA t : ~StartsWith(t, <<"-">>) /\ t \notin { <<">">>, <<">",">">>, <<"<">>, <<"|">> })

CpMvVerdict(command, cmd_base, project_dir, eloop_raises) ==
    LET r == shlex_split(command)
        paths == CpMvPaths(r.tokens)
        dest == paths[Len(paths)]
        sources == SubSeq(paths, 1, Len(paths) - 1)
        d == validate_path_within_project(dest, project_dir, TRUE, eloop_raises)
    IN  IF ~r.ok THEN Allowed
        ELSE IF Len(paths) < 2 THEN Allowed
        ELSE IF d.v # "allow" THEN Blocked(d, "Bash command blocked: ")
        ELSE IF cmd_base = <<"m","v">>
        THEN ValidateAll(sources, project_dir, eloop_raises, "Bash command blocked: mv source ")
        ELSE ValidateCpSources(sources, project_dir, eloop_raises)

\* "if project_dir:" ... the whole path stage
PathVerdict(command, commands, project_dir, eloop_raises) ==
    LET file_paths == extract_file_paths_from_command(command)
        cmd_base == basename(commands[1])
    IN  IF cmd_base \in { <<"c","p">>, <<"m","v">> }
        THEN CpMvVerdict(command, cmd_base, project_dir, eloop_raises)
        ELSE ValidateAll(file_paths, project_dir, eloop_raises, "Bash command blocked: ")

(***************************************************************************)
(* The inputs of a call.                                                   *)
(***************************************************************************)

\* context absent, or without "project_dir"
None == <<>>

ProjectRoot == <<"/","p","r","o","j">>

ProjectDirs == {None, ProjectRoot}

\* tool_name: the shell tool, another tool, and a name that differs in case
ToolNames == {"Bash", "Read", "bash"}

\* the simple commands the command strings are built from
Stages ==
    { <<"e","c","h","o"," ","h","i">>, <<"e","c","h","o"," ","\"","h","i","\"">>, <<"e","v","i","l">>, <<"l","s">>, <<"r","m">>, <<"r","m"," ","a">>,
      <<"c","a","t"," ","/","e","t","c","/","p","a","s","s","w","d">>, <<"c","a","t"," ","<"," ","/","e","t","c","/","p","a","s","s","w","d">>, <<"c","a","t"," ","l","n","k","/","p","a","s","s","w","d">>, <<"c","a","t"," ","l","o","o","p","/","x">>,
      <<"c","a","t"," ","/","t","m","p","/","x">>, <<"c","a","t"," ",".",".","/","x">>, <<"e","c","h","o"," ","h","i"," ",">"," ","/","e","t","c","/","x">>,
      <<"c","p"," ","a"," ","/","e","t","c","/","x">>, <<"c","p"," ","a"," ","b">>, <<"c","p"," ","/","o","p","t","/","x"," ","a">>, <<"c","p"," ",".","e","n","v"," ","b">>, <<"c","p"," ","/","e","t","c","/","p","a","s","s","w","d"," ","a">>,
      <<"c","p"," ","a"," ","~","/","x">>, <<"m","v"," ","/","e","t","c","/","p","a","s","s","w","d"," ","x">>, <<"m","v"," ","a"," ","b">>,
      <<"p","k","i","l","l"," ","\""," ","\"">>, <<"p","k","i","l","l"," ","n","o","d","e">>, <<"c","h","m","o","d"," ","+","x"," ","a">>, <<"e","c","h","o"," ","\"","h","i">> }

\* the operators that chain them, written with and without whitespace
Operators ==
    { <<";">>, <<" ",";"," ">>, <<"&","&">>, <<" ","&","&"," ">>, <<"&">>, <<"|">>, <<" ","|"," ">>, <<" ","|","|"," ">> }

\* The longest chain of simple commands in a command string
MaxStages == 2

\* what a chain of more than two simple commands goes on with
FollowOperators == { <<";">>, <<" ","&","&"," ">> }

Followers == { <<"l","s">>, <<"e","v","i","l">> }

\* the chains of up to n simple commands: every pair of Stages under every
\* operator, longer ones by a follower at the end
RECURSIVE Chains(_)
Chains(n) ==
    IF n <= 1 THEN Stages
    ELSE IF n = 2
    THEN Stages \cup { c \o op \o s : c \in Stages, op \in Operators, s \in Stages }
    ELSE Chains(n - 1) \cup
         { c \o op \o s : c \in Chains(n - 1) \ Chains(n - 2),
                          op \in FollowOperators, s \in Followers }

\* the substitutions: opening and closing text
Substitutions ==
    { <<<<"$","(">>, <<")">>>>, <<<<"<","(">>, <<")">>>>, <<<<">","(">>, <<")">>>>, <<<<Backtick>>, <<Backtick>>>> }

\* The deepest nesting of substitutions in a command string
MaxDepth == 3

\* what runs innermost: an unknown command, a known one, an unknown one with a
\* quoted parenthesis as its argument
Innermost == { <<"e","v","i","l">>, <<"l","s">>, <<"e","v","i","l"," ","\"",")","\"">> }

\* a backtick substitution holds no backtick substitution
RECURSIVE Nested(_)
Nested(d) ==
    IF d = 0 THEN Innermost
    ELSE UNION { { <<"e","c","h","o"," ">> \o sub[1] \o inner \o sub[2] :
                     inner \in { x \in Nested(d - 1) :
                                   sub[1] = <<Backtick>> => Backtick \notin Range(x) } } :
                 sub \in Substitutions }

NestedUpTo(d) == UNION { Nested(k) : k \in 1..d }

\* a substitution of allowlisted commands next to an unterminated quote
Unterminated ==
    { c \o q : c \in { x \in Nested(1) : ~Contains(x, <<"e","v","i","l">>) },
               q \in { <<" ","\"","h","i">>, <<" ","'","h","i">> } }

\* tool_input["command"] of a call of another tool
OtherToolInputs == {<<>>} \cup Stages

Commands == {<<>>} \cup Chains(MaxStages) \cup NestedUpTo(MaxDepth) \cup Unterminated

(***************************************************************************)
(* bash_security_hook as a state machine: one call, from its arguments to  *)
(* the value it returns or the exception it raises.                        *)
(***************************************************************************)
VARIABLES
    tool_name,    \* input_data["tool_name"]
    command,      \* input_data["tool_input"]["command"]
    project_dir,  \* context["project_dir"], or None
    pc,           \* where the call is: "start", "allowlist", "validate", "done"
    commands,     \* the local list commands
    segments,     \* the local list segments
    idx,          \* the position of "for cmd in commands"
    decision,     \* "pending", then "allow" ({}), "block" or "raise"
    reason,       \* the reason of a block, the exception of a raise
    trace         \* the stages the call went through, in order

vars == <<tool_name, command, project_dir, pc, commands, segments, idx,
          decision, reason, trace>>

Stage(stage, cmd) == [stage |-> stage, cmd |-> cmd]

Init ==
    /\ tool_name \in ToolNames
    /\ command \in (IF tool_name = "Bash" THEN Commands ELSE OtherToolInputs)
    /\ project_dir \in ProjectDirs
    /\ pc = "start"
    /\ commands = <<>>
    /\ segments = <<>>
    /\ idx = 0
    /\ decision = "pending"
    /\ reason = ""
    /\ trace = <<>>

\* the call returns or raises
Return(v, why) ==
    /\ pc' = "done"
    /\ decision' = v
    /\ reason' = why

\* a variant: a non-shell tool treated as the shell tool when its name differs in case only
IsShellTool_CaseBlind(name) == name \in {"Bash", "bash"}

IsShellTool(name) == name = "Bash"

\* if input_data.get("tool_name") != "Bash": return {}
NotBash ==
    /\ pc = "start"
    /\ ~IsShellTool(tool_name)
    /\ Return("allow", "")
    /\ UNCHANGED <<tool_name, command, project_dir, commands, segments, idx, trace>>

\* if not command: return {}
EmptyCommand ==
    /\ pc = "start"
    /\ IsShellTool(tool_name)
    /\ command = <<>>
    /\ Return("allow", "")
    /\ UNCHANGED <<tool_name, command, project_dir, commands, segments, idx, trace>>

\* commands = extract_commands(command) + extract_substitution_commands(command);
\* if not commands: block; segments = split_command_segments(command)
ExtractCommands ==
    /\ pc = "start"
    /\ IsShellTool(tool_name)
    /\ command # <<>>
    /\ LET cs == extract_commands(command) \o extract_substitution_commands(command)
       IN  /\ commands' = cs
           /\ trace' = Append(trace, Stage("ExtractCommands", 0))
           /\ IF cs = <<>>
              THEN /\ Return("block", "Could not parse command for security validation")
                   /\ UNCHANGED <<segments, idx>>
              ELSE /\ pc' = "allowlist"
                   /\ segments' = split_command_segments(command)
                   /\ idx' = 1
                   /\ UNCHANGED <<decision, reason>>
    /\ UNCHANGED <<tool_name, command, project_dir>>

\* for cmd in commands: if cmd not in ALLOWED_COMMANDS: block
AllowlistCheck ==
    /\ pc = "allowlist"
    /\ idx <= Len(commands)
    /\ trace' = Append(trace, Stage("AllowlistCheck", idx))
    /\ LET cmd == commands[idx]
       IN  IF cmd \notin ALLOWED_COMMANDS
           THEN /\ Return("block", "Command is not in the allowed commands list")
                /\ UNCHANGED idx
           ELSE IF cmd \in COMMANDS_NEEDING_EXTRA_VALIDATION
           THEN /\ pc' = "validate"
                /\ UNCHANGED <<idx, decision, reason>>
           ELSE /\ idx' = idx + 1
                /\ UNCHANGED <<pc, decision, reason>>
    /\ UNCHANGED <<tool_name, command, project_dir, commands, segments>>

\* if cmd in COMMANDS_NEEDING_EXTRA_VALIDATION: the validator of cmd, on its
\* segment or, when no segment shows it, on the whole command
ExtraValidate ==
    /\ pc = "validate"
    /\ trace' = Append(trace, Stage("ExtraValidate", idx))
    /\ LET cmd == commands[idx]
           found == get_command_for_validation(cmd, segments)
           cmd_segment == IF found = <<>> THEN command ELSE found
           r == ExtraValidation(cmd, cmd_segment)
       IN  IF r.v = "allow"
           THEN /\ pc' = "allowlist"
                /\ idx' = idx + 1
                /\ UNCHANGED <<decision, reason>>
           ELSE /\ Return(r.v, r.reason)
                /\ UNCHANGED idx
    /\ UNCHANGED <<tool_name, command, project_dir, commands, segments>>

\* a variant: a path check that takes an absent project root for a root
HasProjectDir_Always(dir) == TRUE

HasProjectDir(dir) == dir # None

\* "if project_dir:" is false: the loop ends and the hook returns {}
SkipPathCheck ==
    /\ pc = "allowlist"
    /\ idx > Len(commands)
    /\ ~HasProjectDir(project_dir)
    /\ Return("allow", "")
    /\ UNCHANGED <<tool_name, command, project_dir, commands, segments, idx, trace>>

\* "if project_dir:" ... return {}.  Whether Path.resolve raises on a symlink
\* loop is the interpreter's choice.
PathCheck ==
    /\ pc = "allowlist"
    /\ idx > Len(commands)
    /\ HasProjectDir(project_dir)
    /\ trace' = Append(trace, Stage("PathCheck", 0))
    /\ \E eloop_raises \in BOOLEAN :
          LET r == PathVerdict(command, commands, project_dir, eloop_raises)
          IN  Return(r.v, r.reason)
    /\ UNCHANGED <<tool_name, command, project_dir, commands, segments, idx>>

Next ==
    \/ NotBash
    \/ EmptyCommand
    \/ ExtractCommands
    \/ AllowlistCheck
    \/ ExtraValidate
    \/ SkipPathCheck
    \/ PathCheck

Spec == Init /\ [][Next]_vars

(***************************************************************************)
(* Calls whose commands go to the validators of                            *)
(* COMMANDS_NEEDING_EXTRA_VALIDATION: the same hook, from another set of   *)
(* command strings.                                                        *)
(***************************************************************************)
ChmodStages ==
    { <<"c","h","m","o","d"," ","+","x"," ","a">>, <<"c","h","m","o","d"," ","u","+","x"," ","a">>, <<"c","h","m","o","d"," ","u","g","+","x"," ","a"," ","b">>, <<"c","h","m","o","d"," ","a","+","x"," ","a">>, <<"c","h","m","o","d"," ","7","7","7"," ","a">>,
      <<"c","h","m","o","d"," ","+","w"," ","a">>, <<"c","h","m","o","d"," ","u","+","r","w","x"," ","a">>, <<"c","h","m","o","d"," ","+","X"," ","a">>, <<"c","h","m","o","d"," ","x","+","x"," ","a">>, <<"c","h","m","o","d"," ","u","+","x",",","g","+","x"," ","a">>,
      <<"c","h","m","o","d"," ","-","R"," ","+","x"," ","a">>, <<"c","h","m","o","d"," ","+","x"," ","-","R"," ","a">>, <<"c","h","m","o","d"," ","+","x"," ","a"," ","-","v">>, <<"c","h","m","o","d"," ","+","x">>, <<"c","h","m","o","d">>,
      <<"c","h","m","o","d"," ","'","+","x","\n","'"," ","a">>, <<"c","h","m","o","d"," ","'","u","+","x","\n","'"," ","a">>, <<"/","b","i","n","/","c","h","m","o","d"," ","+","x"," ","a">> }

KillStages ==
    { <<"k","i","l","l"," ","5","0","0","0">>, <<"k","i","l","l"," ","-","9"," ","5","0","0","0">>, <<"k","i","l","l"," ","-","T","E","R","M"," ","5","0","0","0">>, <<"k","i","l","l"," ","-","t","e","r","m"," ","5","0","0","0">>,
      <<"k","i","l","l"," ","-","s"," ","K","I","L","L"," ","5","0","0","0">>, <<"k","i","l","l"," ","-","s"," ","S","E","G","V"," ","5","0","0","0">>, <<"k","i","l","l"," ","-","S","E","G","V"," ","5","0","0","0">>, <<"k","i","l","l"," ","-","5"," ","5","0","0","0">>,
      <<"k","i","l","l"," ","-","9"," ","1">>, <<"k","i","l","l"," ","1">>, <<"k","i","l","l"," ","-","9"," ","5","0">>, <<"k","i","l","l"," ","9","9">>, <<"k","i","l","l"," ","1","0","0">>, <<"k","i","l","l"," ","0">>,
      <<"k","i","l","l"," ","5","0","0","0"," ","1">>, <<"k","i","l","l"," ","1"," ","5","0","0","0">>, <<"k","i","l","l"," ","-","s"," ","K","I","L","L"," ","1">>, <<"k","i","l","l"," ","%","1">>, <<"k","i","l","l"," ","$","P","I","D">>,
      <<"k","i","l","l"," ","-","l">>, <<"k","i","l","l"," ","-","-","l","i","s","t">>, <<"k","i","l","l">>, <<"k","i","l","l"," ","-","9">>, <<"k","i","l","l"," ","-","s">>,
      <<"k","i","l","l"," ","1"," ","-","l">>, <<"k","i","l","l"," ","-","9"," ","-","1"," ","5","0","0","0">>, <<"k","i","l","l"," ","5","0","0","0"," ","-","1">>, <<"k","i","l","l"," ","-","9"," ","-","1">>,
      <<"k","i","l","l"," ","-","S","E","G","V"," ","-","9"," ","5","0","0","0">>, <<"k","i","l","l"," ","-","s"," ","S","E","G","V"," ","-","9"," ","5","0","0","0">>, <<"k","i","l","l"," ","-","-"," ","-","1">>, <<"k","i","l","l"," ","-","-"," ","5","0","0","0">> }

RmStages ==
    { <<"r","m">>, <<"r","m"," ","-","r","f">>, <<"r","m"," ","a">>, <<"r","m"," ","o","l","d",".","t","x","t">>, <<"r","m"," ","-","f"," ","o","l","d",".","t","x","t">>, <<"r","m"," ","-","r","f"," ","o","l","d",".","t","x","t">>,
      <<"r","m"," ","-","-","f","o","r","c","e"," ","o","l","d",".","t","x","t">>, <<"r","m"," ","-","r","f"," ","/","*">>, <<"r","m"," ","/","*">>, <<"r","m"," ","-","r","f"," ","/">>, <<"r","m"," ",".",".","/","*">>, <<"r","m"," ","a","/",".",".">>,
      <<"r","m"," ","a","/",".">>, <<"r","m"," ",".","*">>, <<"r","m"," ","*","*","/">>, <<"r","m"," ","~","/","*">>, <<"r","m"," ","/","h","o","m","e">>, <<"r","m"," ","/","h","o","m","e","/","a","g","e","n","t","/","x">>,
      <<"r","m"," ","/","e","t","c">>, <<"r","m"," ","a"," ","/","e","t","c">>, <<"r","m"," ","x","/","e","t","c">>, <<"r","m"," ","/","u","s","r","/","l","i","b">>, <<"r","m"," ","/","v","a","r">>, <<"r","m"," ","/","b","i","n">>,
      <<"r","m"," ","/","s","b","i","n">>, <<"r","m"," ","/","l","i","b">>, <<"r","m"," ","/","b","o","o","t">>, <<"r","m"," ","/","d","e","v">>, <<"r","m"," ","/","p","r","o","c">>, <<"r","m"," ","/","s","y","s">>,
      <<"r","m"," ","/","r","o","o","t">>, <<"r","m"," ","-","r"," ","a","*">>, <<"r","m"," ","-","R"," ","a","*">>, <<"r","m"," ","-","-","r","e","c","u","r","s","i","v","e"," ","a","*">>, <<"r","m"," ","-","f","r"," ","a"," ","b","*">>,
      <<"r","m"," ","-","f"," ","a","*">>, <<"r","m"," ","a","*">>, <<"r","m"," ","-","r"," ","a","/",".",".","/","b">>, <<"r","m"," ","a","/",".",".","/","b">>, <<"r","m"," ","-","r"," ","a">>, <<"r","m"," ","a"," ","b">>,
      <<"/","b","i","n","/","r","m"," ","a">>, <<"r","m"," ","'","a">> }

RmdirStages ==
    { <<"r","m","d","i","r">>, <<"r","m","d","i","r"," ","-","p">>, <<"r","m","d","i","r"," ","a">>, <<"r","m","d","i","r"," ","a"," ","b">>, <<"r","m","d","i","r"," ","-","p"," ","a","/","b">>, <<"r","m","d","i","r"," ","/">>,
      <<"r","m","d","i","r"," ","/","*">>, <<"r","m","d","i","r"," ",".",".","/","*">>, <<"r","m","d","i","r"," ","~">>, <<"r","m","d","i","r"," ","~","/","*">>, <<"r","m","d","i","r"," ",".">>, <<"r","m","d","i","r"," ","a"," ",".">>,
      <<"r","m","d","i","r"," ",".",".","/","a">>, <<"r","m","d","i","r"," ","a","/",".",".","/","b">>, <<"r","m","d","i","r"," ","a",".",".">>, <<"r","m","d","i","r"," ",".","/","a","/",".",".">>, <<"r","m","d","i","r"," ",".","/",".",".">>,
      <<"r","m","d","i","r"," ",".",".">>, <<"r","m","d","i","r"," ","/","e","t","c">>, <<"r","m","d","i","r"," ",".","/">>, <<"r","m","d","i","r"," ","-","-","p","a","r","e","n","t","s"," ",".">>, <<"/","b","i","n","/","r","m","d","i","r"," ","a">>,
      <<"r","m","d","i","r"," ","'","a">> }

SystemctlStages ==
    { <<"s","y","s","t","e","m","c","t","l"," ","s","t","a","t","u","s"," ","n","g","i","n","x">>, <<"s","y","s","t","e","m","c","t","l"," ","s","h","o","w"," ","n","g","i","n","x">>, <<"s","y","s","t","e","m","c","t","l"," ","l","i","s","t","-","u","n","i","t","s">>,
      <<"s","y","s","t","e","m","c","t","l"," ","l","i","s","t","-","u","n","i","t","-","f","i","l","e","s">>, <<"s","y","s","t","e","m","c","t","l"," ","i","s","-","a","c","t","i","v","e"," ","n","g","i","n","x">>,
      <<"s","y","s","t","e","m","c","t","l"," ","i","s","-","e","n","a","b","l","e","d"," ","n","g","i","n","x">>, <<"s","y","s","t","e","m","c","t","l"," ","s","t","a","r","t"," ","n","g","i","n","x">>, <<"s","y","s","t","e","m","c","t","l"," ","s","t","o","p"," ","n","g","i","n","x">>,
      <<"s","y","s","t","e","m","c","t","l"," ","r","e","s","t","a","r","t"," ","n","g","i","n","x">>, <<"s","y","s","t","e","m","c","t","l"," ","e","n","a","b","l","e"," ","n","g","i","n","x">>, <<"s","y","s","t","e","m","c","t","l"," ","d","i","s","a","b","l","e"," ","n","g","i","n","x">>,
      <<"s","y","s","t","e","m","c","t","l"," ","d","a","e","m","o","n","-","r","e","l","o","a","d">>, <<"s","y","s","t","e","m","c","t","l">>, <<"s","y","s","t","e","m","c","t","l"," ","-","-","u","s","e","r">>,
      <<"s","y","s","t","e","m","c","t","l"," ","-","-","u","s","e","r"," ","s","t","a","t","u","s"," ","n","g","i","n","x">>, <<"s","y","s","t","e","m","c","t","l"," ","-","-","u","s","e","r"," ","s","t","o","p"," ","n","g","i","n","x">>,
      <<"s","y","s","t","e","m","c","t","l"," ","-","p"," ","s","t","a","t","u","s"," ","s","t","o","p"," ","n","g","i","n","x">>, <<"s","y","s","t","e","m","c","t","l"," ","-","-","p","r","o","p","e","r","t","y"," ","s","t","a","t","u","s"," ","s","t","o","p"," ","x">>,
      <<"s","y","s","t","e","m","c","t","l"," ","-","p"," ","I","d"," ","s","t","a","t","u","s"," ","n","g","i","n","x">>, <<"s","y","s","t","e","m","c","t","l"," ","-","H"," ","s","t","a","t","u","s"," ","r","e","s","t","a","r","t"," ","n","g","i","n","x">> }

PkillStages ==
    { <<"p","k","i","l","l"," ","n","o","d","e">>, <<"p","k","i","l","l"," ","n","p","m">>, <<"p","k","i","l","l"," ","n","p","x">>, <<"p","k","i","l","l"," ","v","i","t","e">>, <<"p","k","i","l","l"," ","n","e","x","t">>,
      <<"p","k","i","l","l"," ","p","n","p","m">>, <<"p","k","i","l","l"," ","u","v","i","c","o","r","n">>, <<"p","k","i","l","l"," ","j","a","v","a">>, <<"p","k","i","l","l"," ","-","f"," ","n","o","d","e">>, <<"p","k","i","l","l"," ","-","9"," ","n","o","d","e">>,
      <<"p","k","i","l","l"," ","-","f"," ","\"","n","o","d","e"," ","s","e","r","v","e","r",".","j","s","\"">>, <<"p","k","i","l","l"," ","p","y","t","h","o","n">>, <<"p","k","i","l","l"," ","-","f"," ","p","y","t","h","o","n">>,
      <<"p","k","i","l","l"," ","-","f"," ","\"","p","y","t","h","o","n"," ","x",".","p","y","\"">>, <<"p","k","i","l","l"," ","b","a","s","h">>, <<"p","k","i","l","l">>, <<"p","k","i","l","l"," ","-","9">>, <<"p","k","i","l","l"," ","-","f">>,
      <<"p","k","i","l","l"," ","p","y","t","h","o","n"," ","n","o","d","e">>, <<"p","k","i","l","l"," ","n","o","d","e"," ","p","y","t","h","o","n">>, <<"p","k","i","l","l"," ","-","f"," ","p","y","t","h","o","n"," ","n","o","d","e">>,
      <<"p","k","i","l","l"," ","\""," ","\"">>, <<"p","k","i","l","l"," ","'","n","o","d","e">> }

DockerStages ==
    { <<"d","o","c","k","e","r"," ","p","s">>, <<"d","o","c","k","e","r"," ","r","u","n"," ","i","m","g">>, <<"d","o","c","k","e","r"," ","r","u","n"," ","-","v"," ","/","e","t","c",":","/","x"," ","i","m","g">>,
      <<"d","o","c","k","e","r"," ","r","u","n"," ","-","-","v","o","l","u","m","e"," ","/","e","t","c",":","/","x"," ","i","m","g">>, <<"d","o","c","k","e","r"," ","r","u","n"," ","-","v"," ","/",":","/","h","o","s","t"," ","i","m","g">>,
      <<"d","o","c","k","e","r"," ","r","u","n"," ","-","v"," ","/","h","o","m","e",":","/","h"," ","i","m","g">>, <<"d","o","c","k","e","r"," ","r","u","n"," ","-","v"," ","/","u","s","r",":","/","u"," ","i","m","g">>,
      <<"d","o","c","k","e","r"," ","r","u","n"," ","-","v"," ","/","v","a","r",":","/","v"," ","i","m","g">>, <<"d","o","c","k","e","r"," ","r","u","n"," ","-","v"," ","/","e","t","c",":","/","x",":","r","o"," ","i","m","g">>,
      <<"d","o","c","k","e","r"," ","r","u","n"," ","-","v"," ",".","/","d","a","t","a",":","/","d"," ","i","m","g">>, <<"d","o","c","k","e","r"," ","r","u","n"," ","-","v"," ","/","p","r","o","j","/","d","a","t","a",":","/","d"," ","i","m","g">>,
      <<"d","o","c","k","e","r"," ","r","u","n"," ","-","v"," ","/","e","t","c"," ","i","m","g">>, <<"d","o","c","k","e","r"," ","r","u","n"," ","-","v">>,
      <<"d","o","c","k","e","r"," ","r","u","n"," ","-","-","v","o","l","u","m","e","=","/","e","t","c",":","/","x"," ","i","m","g">>, <<"d","o","c","k","e","r"," ","r","u","n"," ","-","-","v","o","l","u","m","e","=","/",":","/","h","o","s","t"," ","i","m","g">>,
      <<"d","o","c","k","e","r"," ","r","u","n"," ","-","v","/","e","t","c",":","/","x"," ","i","m","g">>, <<"d","o","c","k","e","r"," ","r","u","n"," ","-","v","=","/","v","a","r",":","/","v"," ","i","m","g">>,
      <<"d","o","c","k","e","r"," ","r","u","n"," ","-","-","v","o","l","u","m","e","=",".","/","d","a","t","a",":","/","d"," ","i","m","g">>, <<"d","o","c","k","e","r"," ","r","u","n"," ","-","i","t"," ","-","v"," ","/","e","t","c",":","/","x"," ","i","m","g">>,
      <<"/","u","s","r","/","b","i","n","/","d","o","c","k","e","r"," ","p","s">> }

ScriptStages ==
    { <<".","/","s","t","a","r","t",".","s","h">>, <<".","/","r","e","s","t","a","r","t",".","s","h">>, <<".","/","s","t","o","p",".","s","h">>, <<"s","t","a","r","t",".","s","h">>, <<"r","e","s","t","a","r","t",".","s","h">>,
      <<"s","t","o","p",".","s","h">>, <<"b","i","n","/","s","t","a","r","t",".","s","h">>, <<"/","o","p","t","/","a","p","p","/","s","t","o","p",".","s","h">>, <<".",".","/","r","e","s","t","a","r","t",".","s","h">>,
      <<".","/","s","t","a","r","t",".","s","h"," ","-","-","f","a","s","t">>, <<"s","t","a","r","t",".","s","h"," ","-","-","f","a","s","t">>, <<"F","O","O","=","1"," ",".","/","s","t","a","r","t",".","s","h">> }

ValidatorGroups ==
    { ChmodStages, KillStages, RmStages, RmdirStages, SystemctlStages, PkillStages,
      DockerStages, ScriptStages }

ValidatorStages == UNION ValidatorGroups

\* two invocations, under the operators split_command_segments splits at
RepeatOperators == { <<" ","&","&"," ">>, <<";"," ">> }

Repeated(stages) == { a \o op \o b : a \in stages, op \in RepeatOperators, b \in stages }

ValidatorCommands ==
    {<<>>} \cup ValidatorStages \cup Repeated(ScriptStages)
        \cup Repeated({ <<"r","m"," ","a">>, <<"r","m"," ","-","r","f"," ","/","*">>, <<"r","m","d","i","r"," ","a">>, <<"r","m","d","i","r"," ","/">>,
                        <<"s","y","s","t","e","m","c","t","l"," ","s","h","o","w"," ","x">>, <<"s","y","s","t","e","m","c","t","l"," ","s","t","o","p"," ","x">>,
                        <<"k","i","l","l"," ","5","0","0","0">>, <<"k","i","l","l"," ","1">>, <<"c","h","m","o","d"," ","+","x"," ","a">>, <<"c","h","m","o","d"," ","7","7","7"," ","a">>,
                        <<"p","k","i","l","l"," ","n","o","d","e">>, <<"p","k","i","l","l"," ","p","y","t","h","o","n">>, <<"d","o","c","k","e","r"," ","p","s">> })

ValidatorInit ==
    /\ tool_name \in ToolNames
    /\ command \in (IF tool_name = "Bash" THEN ValidatorCommands ELSE OtherToolInputs)
    /\ project_dir \in ProjectDirs
    /\ pc = "start"
    /\ commands = <<>>
    /\ segments = <<>>
    /\ idx = 0
    /\ decision = "pending"
    /\ reason = ""
    /\ trace = <<>>

ValidatorSpec == ValidatorInit /\ [][Next]_vars


(***************************************************************************)
(* Calls that exercise the reading of shell syntax: keywords, quoted       *)
(* operators, redirections, paths that do not resolve, and command         *)
(* strings that hold no command name.                                      *)
(***************************************************************************)

\* compound commands: the keyword at the start of a segment, after a newline,
\* after an operator, and as a plain argument
KeywordStages ==
    { <<"i","f"," ","t","r","u","e",";"," ","t","h","e","n"," ","e","v","i","l",";"," ","f","i">>, <<"i","f"," ","t","r","u","e",";"," ","t","h","e","n"," ","l","s",";"," ","f","i">>,
      <<"i","f"," ","t","r","u","e","\n","t","h","e","n"," ","e","v","i","l","\n","f","i">>, <<"i","f"," ","t","r","u","e","\n","t","h","e","n"," ","l","s","\n","f","i">>,
      <<"i","f"," ","t","r","u","e","\n","t","h","e","n"," ","l","s","\n","e","l","s","e"," ","e","v","i","l","\n","f","i">>,
      <<"w","h","i","l","e"," ","t","r","u","e",";"," ","d","o"," ","e","v","i","l",";"," ","d","o","n","e">>, <<"w","h","i","l","e"," ","t","r","u","e","\n","d","o"," ","e","v","i","l","\n","d","o","n","e">>,
      <<"u","n","t","i","l"," ","f","a","l","s","e",";"," ","d","o"," ","l","s",";"," ","d","o","n","e">>,
      <<"c","a","s","e"," ","l","s"," ","i","n"," ","l","s",")"," ","e","v","i","l"," ",";",";"," ","e","s","a","c">>, <<"c","a","s","e"," ","$","x"," ","i","n"," ","a",")"," ","l","s"," ",";",";"," ","e","s","a","c">>,
      <<"t","r","u","e"," ","&","&"," ","!"," ","e","v","i","l">>, <<"!"," ","e","v","i","l">>, <<"{"," ","l","s",";"," ","e","v","i","l",";"," ","}">>, <<"{"," ","l","s",";"," ","}">>,
      <<"l","s"," ","|"," ","w","h","i","l","e"," ","r","e","a","d"," ","x",";"," ","d","o"," ","e","v","i","l",";"," ","d","o","n","e">>,
      <<"f","o","r"," ","f"," ","i","n"," ","a"," ","b",";"," ","d","o"," ","c","a","t"," ","f",";"," ","d","o","n","e">>, <<"f","o","r"," ","f"," ","i","n"," ","a"," ","b",";"," ","d","o"," ","e","v","i","l",";"," ","d","o","n","e">>,
      <<"i","f"," ","t","r","u","e",";"," ","t","h","e","n"," ","r","m"," ","a",";"," ","f","i">>, <<"i","f"," ","t","r","u","e","\n","t","h","e","n"," ","r","m"," ","-","r","f"," ","/","*","\n","f","i">>,
      <<"l","s"," ","t","h","e","n"," ","e","v","i","l">>, <<"e","c","h","o"," ","h","i">>, <<"l","s"," ","-","l">> }

\* operators inside and outside quotes
QuotedStages ==
    { <<"e","c","h","o"," ","\"","a"," ","&","&"," ","b","\"">>, <<"e","c","h","o"," ","'","a"," ","&","&"," ","b","'">>, <<"e","c","h","o"," ","\"","a"," ","|","|"," ","b","\"">>, <<"e","c","h","o"," ","'","a",";"," ","b","'">>,
      <<"e","c","h","o"," ","\"","a"," ",";"," ","b","\"">>, <<"e","c","h","o"," ","\"","a",";","b","\""," ","&","&"," ","l","s">>, <<"e","c","h","o"," ","\"","h","i","\"",";","e","v","i","l">>, <<"e","c","h","o"," ","\"","h","i","\"",";","l","s">>,
      <<"e","c","h","o"," ","'","h","i","'"," ",";","l","s">>, <<"e","c","h","o"," ","h","i",";","\"","l","s","\"">>, <<"e","c","h","o"," ","h","i",";","e","v","i","l">>, <<"e","c","h","o"," ","h","i"," ",";"," ","l","s">>,
      <<"e","c","h","o"," ","h","i"," ","&","&"," ","l","s">>, <<"e","c","h","o"," ","h","i","&","&","l","s">>, <<"l","s"," ","|","|"," ","e","v","i","l">>, <<"l","s","|","|","l","s">>,
      <<"e","c","h","o"," ","\"","a"," ","&","&"," ","e","v","i","l","\"">>, <<"r","m"," ","\"","a"," ","&","&"," ","b","\"">>, <<"r","m"," ","'","a",";","b","'"," ","&","&"," ","r","m"," ","-","r","f"," ","/","*">>,
      <<"l","s"," ","&","&"," ","e","c","h","o"," ","\"","x",";"," ","y","\"">>, <<"e","c","h","o"," ","\"","a","\""," ","&","&"," ","e","c","h","o"," ","'","b","'",";"," ","l","s">>, <<"e","c","h","o"," ","a","\\",";","b">> }

\* redirections of plain file-operation commands and of others
RedirectionStages ==
    { <<"c","a","t"," ","<"," ","/","e","t","c","/","p","a","s","s","w","d">>, <<"c","a","t"," ","<"," ","a">>, <<"c","a","t"," ","a"," ",">"," ","/","e","t","c","/","x">>, <<"c","a","t"," ","a"," ",">",">"," ","/","e","t","c","/","x">>,
      <<"c","a","t"," ","a"," ",">"," ","o","u","t">>, <<"c","a","t"," ","a"," ",">"," ","/","t","m","p","/","x">>, <<"c","a","t"," ","a"," ","2",">"," ","/","e","t","c","/","x">>, <<"c","a","t"," ","a"," ","2",">"," ","e","r","r">>,
      <<"l","s"," ","&",">"," ","/","e","t","c","/","x">>, <<"l","s"," ","&",">"," ","/","t","m","p","/","x">>, <<"l","s"," ",">"," ","/","e","t","c","/","x"," ","2",">","&","1">>, <<"g","r","e","p"," ","x"," ","a"," ","<"," ","~","/","y">>,
      <<"h","e","a","d"," ","<"," ","l","n","k","/","p","a","s","s","w","d">>, <<"t","a","i","l"," ","a"," ",">",">"," ",".",".","/","x">>, <<"t","o","u","c","h"," ","a"," ","2",">"," ","/","e","t","c","/","x">>,
      <<"r","m"," ","a"," ","<"," ","/","e","t","c","/","p","a","s","s","w","d">>, <<"c","a","t"," ","a"," ",">","/","e","t","c","/","x">>, <<"c","a","t"," ","a"," ","2",">","/","e","t","c","/","x">>,
      <<"e","c","h","o"," ","h","i"," ",">"," ","/","e","t","c","/","x">>, <<"e","c","h","o"," ","h","i"," ","2",">"," ","/","e","t","c","/","x">>, <<"c","a","t"," ","a"," ",">"," ","~","/","x">>, <<"w","c"," ","<"," ",".","/","a">> }

\* paths through the symbolic links loop -> loop and lnk -> /etc, and a path
\* with a NUL character
ResolutionStages ==
    { <<"c","a","t"," ","l","o","o","p","/","x">>, <<"c","a","t"," ","l","o","o","p">>, <<"l","s"," ",".","/","l","o","o","p","/","a","/","b">>, <<"c","a","t"," ","a",Nul,"b">>, <<"c","a","t"," ","/","t","m","p","/","a",Nul,"b">>,
      <<"c","a","t"," ","l","n","k","/","p","a","s","s","w","d">>, <<"c","a","t"," ","a">>, <<"c","a","t"," ","a"," ","l","o","o","p","/","x">>, <<"c","a","t"," ","/","e","t","c","/","p","a","s","s","w","d"," ","l","o","o","p","/","x">>,
      <<"c","a","t"," ","a"," ",">"," ","l","o","o","p","/","x">>, <<"e","c","h","o"," ","h","i"," ",">"," ","l","o","o","p","/","x">>, <<"t","o","u","c","h"," ","l","o","o","p">>, <<"c","a","t"," ","/","p","r","o","j","/","l","o","o","p","/","x">>,
      <<"c","a","t"," ",".",".","/","p","r","o","j","/","a">>, <<"c","a","t"," ","/","t","m","p","/","x">> }

\* command strings with no command name in them
NamelessStages ==
    { <<" ">>, <<" "," "," ">>, <<"\t">>, <<"\n">>, <<"-","l">>, <<"-","r","f"," ","-","-","f","o","r","c","e">>, <<"F","O","O","=","1">>, <<"F","O","O","=","1"," ","B","A","R","=","2">>,
      <<"F","O","O","=","1"," ","-","x">>, <<";">>, <<" ",";"," ">>, <<"\"">>, <<"'">>, <<"e","c","h","o"," ","\"","h","i">>, <<"e","c","h","o"," ","'","h","i">>, <<"-","l"," ","\"">>,
      <<"&","&">>, <<"|">>, <<"i","f">>, <<"t","h","e","n",";">>, <<"f","o","r"," ","x">>, <<"$","(">>, <<"$","(",")">>, <<"$","(","-","l",")">> }

SyntaxGroups ==
    { KeywordStages, QuotedStages, RedirectionStages, ResolutionStages, NamelessStages }

SyntaxCommands == {<<>>} \cup UNION SyntaxGroups

\* a project root that is a symbolic link to itself
LoopRoot == <<"/","p","r","o","j","/","l","o","o","p">>

SyntaxProjectDirs == ProjectDirs \cup {LoopRoot}

SyntaxInit ==
    /\ tool_name \in ToolNames
    /\ command \in (IF tool_name = "Bash" THEN SyntaxCommands ELSE OtherToolInputs)
    /\ project_dir \in SyntaxProjectDirs
    /\ pc = "start"
    /\ commands = <<>>
    /\ segments = <<>>
    /\ idx = 0
    /\ decision = "pending"
    /\ reason = ""
    /\ trace = <<>>

SyntaxSpec == SyntaxInit /\ [][Next]_vars
(***************************************************************************)
(* What the shell does with a command string: the reading the properties   *)
(* below are stated against.  Quotes are respected; ";", "&", "|" (and so  *)
(* "&&", "||") end a simple command wherever they stand outside quotes;    *)
(* "<", ">" and ">>" are words of their own; a substitution is part of the *)
(* word it stands in, and its body is a command string of its own.         *)
(***************************************************************************)

\* the position of the ")" that closes a substitution whose body starts at j
RECURSIVE CloseParen(_, _, _, _)
CloseParen(s, j, depth, q) ==
    IF j > Len(s) THEN 0
    ELSE LET c == s[j] IN
         IF q # "" THEN CloseParen(s, j + 1, depth, IF c = q THEN "" ELSE q)
         ELSE IF c = "\\" THEN CloseParen(s, j + 2, depth, q)
         ELSE IF c \in Quotes THEN CloseParen(s, j + 1, depth, c)
         ELSE IF c = "(" THEN CloseParen(s, j + 1, depth + 1, q)
         ELSE IF c = ")"
         THEN IF depth = 1 THEN j ELSE CloseParen(s, j + 1, depth - 1, q)
         ELSE CloseParen(s, j + 1, depth, q)

\* the position of the next backtick from j on
RECURSIVE CloseBacktick(_, _)
CloseBacktick(s, j) ==
    IF j > Len(s) THEN 0 ELSE IF s[j] = Backtick THEN j ELSE CloseBacktick(s, j + 1)

ShellStart ==
    [q |-> "", word |-> <<>>, inword |-> FALSE, words |-> <<>>, cmds |-> <<>>,
     subs |-> <<>>]

ShellPut(st, chars) == [st EXCEPT !.word = @ \o chars, !.inword = TRUE]

ShellEndWord(st) ==
    IF st.inword
    THEN [st EXCEPT !.words = Append(@, st.word), !.word = <<>>, !.inword = FALSE]
    ELSE st

ShellEndCommand(st) ==
    LET e == ShellEndWord(st) IN
    IF e.words = <<>> THEN e ELSE [e EXCEPT !.cmds = Append(@, e.words), !.words = <<>>]

RECURSIVE ShellRead(_, _, _)
ShellRead(s, i, st) ==
    IF i > Len(s) THEN ShellEndCommand(st)
    ELSE
        LET c == s[i]
            opens == i < Len(s) /\ s[i + 1] = "("
            close == CloseParen(s, i + 2, 1, "")
            tick == CloseBacktick(s, i + 1)
            twice == i < Len(s) /\ s[i + 1] = c
        IN  IF st.q = "'"
            THEN IF c = "'" THEN ShellRead(s, i + 1, [st EXCEPT !.q = ""])
                 ELSE ShellRead(s, i + 1, ShellPut(st, <<c>>))
            ELSE IF c = "\\" /\ i < Len(s)
            THEN ShellRead(s, i + 2, ShellPut(st, <<s[i + 1]>>))
            ELSE IF (c = "$" \/ (st.q = "" /\ c \in {"<", ">"})) /\ opens /\ close > 0
            THEN ShellRead(s, close + 1,
                           [ShellPut(st, SubSeq(s, i, close))
                               EXCEPT !.subs = Append(@, SubSeq(s, i + 2, close - 1))])
            ELSE IF c = Backtick /\ tick > 0
            THEN ShellRead(s, tick + 1,
                           [ShellPut(st, SubSeq(s, i, tick))
                               EXCEPT !.subs = Append(@, SubSeq(s, i + 1, tick - 1))])
            ELSE IF st.q = "\""
            THEN IF c = "\"" THEN ShellRead(s, i + 1, [st EXCEPT !.q = ""])
                 ELSE ShellRead(s, i + 1, ShellPut(st, <<c>>))
            ELSE IF c \in Quotes
            THEN ShellRead(s, i + 1, [st EXCEPT !.q = c, !.inword = TRUE])
            ELSE IF c \in Whitespace THEN ShellRead(s, i + 1, ShellEndWord(st))
            ELSE IF c \in {";", "&", "|"} THEN ShellRead(s, i + 1, ShellEndCommand(st))
            ELSE IF c \in {"<", ">"}
            THEN LET op == IF twice THEN <<c, c>> ELSE <<c>> IN
                 ShellRead(s, i + Len(op),
                           [ShellEndWord(st) EXCEPT !.words = Append(@, op)])
            ELSE ShellRead(s, i + 1, ShellPut(st, <<c>>))

ShellParse(s) == ShellRead(s, 1, ShellStart)

\* the simple commands that run at top level, each a list of words
TopLevelCommands(s) == ShellParse(s).cmds

\* the string ends inside a quote
UnterminatedQuote(s) == ShellParse(s).q # ""

\* the simple commands of a command string and of every substitution in it
RECURSIVE AllCommands(_)
RECURSIVE CommandsOfBodies(_)
AllCommands(s) == ShellParse(s).cmds \o CommandsOfBodies(ShellParse(s).subs)

CommandsOfBodies(bodies) ==
    IF bodies = <<>> THEN <<>>
    ELSE AllCommands(Head(bodies)) \o CommandsOfBodies(Tail(bodies))

\* the simple commands that run inside substitutions, at any depth
SubstitutionCommands(s) == CommandsOfBodies(ShellParse(s).subs)

\* the name a simple command runs
CommandName(words) == basename(words[1])

\* the operands of a simple command: not the name, the flags or the redirections
Operands(words) ==
    SelectSeq(Tail(words),
              LAMBDA w : ~StartsWith(w, <<"-">>) /\ w \notin { <<"<">>, <<">">>, <<">",">">> })

\* an operand written as a path
LooksLikePath(w) == Contains(w, <<"/">>) \/ StartsWith(w, <<"~">>) \/ StartsWith(w, <<".">>)

\* the canonical form of a path: home expanded, relative to the project root,
\* symbolic links followed
Canonical(p, root) ==
    LET e == expanduser(p) IN
    realpath(IF isabs(e) THEN e ELSE root \o <<"/">> \o e)

\* the canonical form lies neither in the project root nor in /tmp
Outside(p, root) ==
    /\ ~IsRelativeTo(Canonical(p, root), realpath(root))
    /\ ~IsRelativeTo(Canonical(p, root), realpath(TmpDir))

\* a call of the shell tool with a command, finished
BashCallDone == pc = "done" /\ tool_name = "Bash" /\ command # <<>>

(***************************************************************************)
(* Properties                                                              *)
(***************************************************************************)

\* C1: default-deny over every segment and pipeline stage: a finished call of
\* the shell tool whose command string runs, at top level, a command that is
\* not in ALLOWED_COMMANDS has returned a block, wherever the command stands
\* and however the operator before it is written.
C1_DefaultDeny ==
    (/\ BashCallDone
     /\ \E k \in DOMAIN TopLevelCommands(command) :
           CommandName(TopLevelCommands(command)[k]) \notin ALLOWED_COMMANDS)
    => decision = "block"

\* C2: substitution visibility: every command that runs inside a $(...), a
\* backtick or a <(...) / >(...) substitution, at any depth, is in the list of
\* names the allowlist checks, and the call is blocked when one of them is not
\* in ALLOWED_COMMANDS.
C2_SubstitutionVisibility ==
    BashCallDone =>
        \A k \in DOMAIN SubstitutionCommands(command) :
            LET name == CommandName(SubstitutionCommands(command)[k]) IN
            /\ name \in Range(commands)
            /\ name \notin ALLOWED_COMMANDS => decision = "block"

\* C3: fail-closed on unterminated quoting: a finished call of the shell tool
\* whose command string ends inside a single or double quote has returned a
\* block, also when the string holds a substitution of allowlisted commands.
C3_UnterminatedQuoteBlocks ==
    (BashCallDone /\ UnterminatedQuote(command)) => decision = "block"

\* C4: exactly one Decision per call: a finished call has returned {} or a
\* block with a non-empty reason; no exception has left the hook.
C4_OneDecision ==
    pc = "done" =>
        \/ decision = "allow" /\ reason = ""
        \/ decision = "block" /\ reason # ""

\* C5: path sandbox: with a project root, a finished call whose command string
\* has, in any simple command at top level, a file-operating command (cp and
\* mv have their own policy) with an operand or redirection target that is
\* written as a path and canonicalizes outside the project root and /tmp has
\* returned a block.
C5_PathSandbox ==
    (/\ BashCallDone
     /\ project_dir # None
     /\ \E k \in DOMAIN TopLevelCommands(command) :
           LET words == TopLevelCommands(command)[k] IN
           /\ CommandName(words) \in file_operation_commands \ { <<"c","p">>, <<"m","v">> }
           /\ \E j \in DOMAIN Operands(words) :
                 /\ LooksLikePath(Operands(words)[j])
                 /\ Outside(Operands(words)[j], project_dir))
    => decision = "block"

\* C6: stage order and short-circuit: no validator runs before every extracted
\* command name has passed the allowlist, and a finished call whose extracted
\* names include one that is not in ALLOWED_COMMANDS is blocked with the
\* reason of the allowlist.
C6_StageOrder ==
    /\ (\E i \in DOMAIN trace : trace[i].stage = "ExtraValidate")
          => \A k \in DOMAIN commands : commands[k] \in ALLOWED_COMMANDS
    /\ (BashCallDone /\ \E k \in DOMAIN commands : commands[k] \notin ALLOWED_COMMANDS)
          => /\ decision = "block"
             /\ reason = "Command is not in the allowed commands list"

\* C7: pass-through of non-shell tools: a finished call of a tool other than
\* "Bash" has returned {} and has gone through no stage (extracted nothing);
\* a finished call of "Bash" with a non-empty command started with
\* ExtractCommands, went on to the allowlist when a command was found, and has
\* returned {} only if commands were found and all are in ALLOWED_COMMANDS.
C7_PassThrough ==
    /\ (pc = "done" /\ tool_name # "Bash")
          => decision = "allow" /\ trace = <<>> /\ commands = <<>>
    /\ BashCallDone
          => /\ trace # <<>>
             /\ trace[1] = Stage("ExtractCommands", 0)
             /\ commands # <<>> => (Len(trace) >= 2 /\ trace[2] = Stage("AllowlistCheck", 1))
             /\ decision = "allow"
                   => /\ commands # <<>>
                      /\ \A k \in DOMAIN commands : commands[k] \in ALLOWED_COMMANDS

\* a call of another tool, with a command the allowlist would block and with a
\* project root, has been allowed
C7_Witness ==
    /\ pc = "done"
    /\ tool_name = "Read"
    /\ command = <<"e","v","i","l">>
    /\ project_dir = ProjectRoot
    /\ decision = "allow"

\* the verdict of the allowlist and the validators on the k-th extracted command
GateVerdict(k) ==
    LET cmd == commands[k]
        found == get_command_for_validation(cmd, split_command_segments(command))
    IN  IF cmd \notin ALLOWED_COMMANDS
        THEN Rejected("Command is not in the allowed commands list")
        ELSE IF cmd \in COMMANDS_NEEDING_EXTRA_VALIDATION
        THEN ExtraValidation(cmd, IF found = <<>> THEN command ELSE found)
        ELSE Allowed

\* the extracted commands that do not pass the allowlist and the validators
GateFailures == { k \in DOMAIN commands : GateVerdict(k).v # "allow" }

FirstGateFailure == CHOOSE k \in GateFailures : \A j \in GateFailures : k <= j

PathCheckRan == \E i \in DOMAIN trace : trace[i].stage = "PathCheck"

\* C8: reduced-guarantee mode: without a project root no path check runs, and
\* the allowlist and the validators decide alone: the call returns {} exactly
\* when commands were found and all pass, and otherwise what the first failing
\* command yields; with a project root the same commands fail with the same
\* result, and exactly the calls that pass reach PathCheck.
C8_ReducedGuarantee ==
    /\ project_dir = None => ~PathCheckRan
    /\ BashCallDone =>
          /\ commands = <<>> => decision = "block"
          /\ GateFailures # {} =>
                /\ decision = GateVerdict(FirstGateFailure).v
                /\ reason = GateVerdict(FirstGateFailure).reason
                /\ ~PathCheckRan
          /\ (commands # <<>> /\ GateFailures = {}) =>
                IF project_dir = None THEN decision = "allow" ELSE PathCheckRan

\* without a project root, a command that reads outside any project has been
\* allowed
C8_Witness ==
    /\ BashCallDone
    /\ project_dir = None
    /\ command = <<"c","a","t"," ","/","e","t","c","/","p","a","s","s","w","d">>
    /\ decision = "allow"

\* C9: copy/move destination containment: with a project root, a finished call
\* whose command string has a cp or mv with at least two operands, the last of
\* which canonicalizes outside the project root and /tmp, has returned a block.
C9_DestinationContained ==
    (/\ BashCallDone
     /\ project_dir # None
     /\ \E k \in DOMAIN TopLevelCommands(command) :
           LET words == TopLevelCommands(command)[k]
               ops == Operands(words)
           IN  /\ CommandName(words) \in { <<"c","p">>, <<"m","v">> }
               /\ Len(ops) >= 2
               /\ Outside(ops[Len(ops)], project_dir))
    => decision = "block"

\* the operands of a cp or mv before the last one
Sources(words) == SubSeq(Operands(words), 1, Len(Operands(words)) - 1)

\* C10: asymmetric source policy: with a project root, a finished call whose
\* command string has an mv with a source outside the project root and /tmp
\* has returned a block; and a finished call of a single cp whose destination
\* is inside and whose every source is inside or passes the deny-list of
\* validate_cp_source_path has returned {}.
C10_SourcePolicy ==
    (BashCallDone /\ project_dir # None) =>
        /\ (\E k \in DOMAIN TopLevelCommands(command) :
               LET words == TopLevelCommands(command)[k] IN
               /\ CommandName(words) = <<"m","v">>
               /\ Len(Operands(words)) >= 2
               /\ \E j \in DOMAIN Sources(words) : Outside(Sources(words)[j], project_dir))
              => decision = "block"
        /\ (/\ Len(TopLevelCommands(command)) = 1
            /\ SubstitutionCommands(command) = <<>>
            /\ ~UnterminatedQuote(command)
            /\ LET words == TopLevelCommands(command)[1] IN
               /\ CommandName(words) = <<"c","p">>
               /\ Len(Operands(words)) >= 2
               /\ ~Outside(Operands(words)[Len(Operands(words))], project_dir)
               /\ \A j \in DOMAIN Sources(words) :
                     \/ ~Outside(Sources(words)[j], project_dir)
                     \/ validate_cp_source_path(Sources(words)[j]).v = "allow")
              => decision = "allow"

(***************************************************************************)
(* Properties of the validators.  A validator is observed where the hook   *)
(* calls it: in the state ExtraValidate leaves, on the segment the hook    *)
(* hands it.                                                               *)
(***************************************************************************)

\* the last stage the call went through is a validator
ValidatorReturned == trace # <<>> /\ trace[Len(trace)].stage = "ExtraValidate"

\* the command name the validator was chosen for
ValidatedCommand == commands[trace[Len(trace)].cmd]

\* the string the validator was given
ValidatedSegment ==
    LET found == get_command_for_validation(ValidatedCommand, segments)
    IN  IF found = <<>> THEN command ELSE found

\* its tokens; none when shlex cannot split it
ValidatedTokens == shlex_split(ValidatedSegment).tokens

\* what the validator returned: the hook goes on exactly when it allowed
ValidatorVerdict == IF pc = "done" THEN decision ELSE "allow"

\* the validator of cmd has just returned
Returned(cmd) == ValidatorReturned /\ ValidatedCommand = cmd

\* a mode of the form [ugoa]*+x, nothing before and nothing after
IsPlusXMode(mode) ==
    /\ Len(mode) >= 2
    /\ SubSeq(mode, Len(mode) - 1, Len(mode)) = <<"+","x">>
    /\ \A i \in 1..(Len(mode) - 2) : mode[i] \in {"u", "g", "o", "a"}

\* C12: chmod validator: validate_chmod_command allows only if the first token
\* of the segment is chmod, no later token starts with "-", the token after
\* chmod is a mode [ugoa]*+x exactly and a file token follows it; a flag, any
\* other mode, a missing mode or a missing file blocks.
C12_ChmodPlusXOnly ==
    Returned(<<"c","h","m","o","d">>) =>
        LET t == ValidatedTokens IN
        /\ ValidatorVerdict = "allow" =>
              /\ Len(t) >= 3
              /\ t[1] = <<"c","h","m","o","d">>
              /\ \A i \in 2..Len(t) : ~StartsWith(t[i], <<"-">>)
              /\ IsPlusXMode(t[2])
        /\ (\/ Len(t) < 3
            \/ \E i \in 2..Len(t) : StartsWith(t[i], <<"-">>)
            \/ ~IsPlusXMode(t[2])) => ValidatorVerdict = "block"

(***************************************************************************)
(* kill, as kill(1) reads its arguments: a signal is given first, as -s    *)
(* NAME, -n NUMBER, -NAME or -NUMBER; "--" ends the options; every         *)
(* argument after that is a target, a negative number a process group.     *)
(***************************************************************************)
KillListing(t) == Len(t) >= 2 /\ t[2] \in { <<"-","l">>, <<"-","-","l","i","s","t">>, <<"-","L">> }

AfterDoubleDash(a) == IF a # <<>> /\ a[1] = <<"-","-">> THEN Tail(a) ELSE a

KillTargets(t) ==
    LET a == Tail(t) IN
    IF a = <<>> \/ KillListing(t) THEN <<>>
    ELSE IF a[1] \in { <<"-","s">>, <<"-","n">> } THEN AfterDoubleDash(SubSeq(a, 3, Len(a)))
    ELSE IF a[1] = <<"-","-">> THEN Tail(a)
    ELSE IF StartsWith(a[1], <<"-">>) THEN AfterDoubleDash(Tail(a))
    ELSE a

\* the signal the invocation names, <<>> when it names none
KillSignal(t) ==
    LET a == Tail(t) IN
    IF a = <<>> \/ KillListing(t) \/ a[1] = <<"-","-">> THEN <<>>
    ELSE IF a[1] = <<"-","s">> THEN (IF Len(a) >= 2 THEN a[2] ELSE <<>>)
    ELSE IF StartsWith(a[1], <<"-">>) THEN Tail(a[1])
    ELSE <<>>

\* a decimal number, with or without a minus sign
IsNumber(w) ==
    LET body == IF w # <<>> /\ w[1] = "-" THEN Tail(w) ELSE w
    IN  body # <<>> /\ \A i \in 1..Len(body) : IsDigit(body[i])

\* PID 1, a negative PID, or a PID below 100
LowPid(w) ==
    /\ IsNumber(w)
    /\ (w[1] = "-" \/ DecimalValue(w, 1, 0) < 100)

\* C13: kill validator, targets: an invocation of kill with PID 1, a negative
\* PID or a numeric PID below 100 among its targets is blocked, wherever the
\* target stands and whatever signal is given; an invocation with no target
\* (other than kill -l) is blocked.
C13_KillTargets ==
    (Returned(<<"k","i","l","l">>) /\ ValidatedTokens # <<>>) =>
        LET t == ValidatedTokens IN
        /\ (\E i \in 1..Len(KillTargets(t)) : LowPid(KillTargets(t)[i]))
              => ValidatorVerdict = "block"
        /\ (KillTargets(t) = <<>> /\ ~KillListing(t)) => ValidatorVerdict = "block"

\* C14: kill validator, signals: an invocation that names a signal (-NAME,
\* -NUMBER, -s NAME) is allowed only if the upper-cased signal is in
\* allowed_signals; an invocation with no "-" argument at all is allowed exactly
\* when it has targets and none is PID 1, negative or below 100; kill -l and
\* kill --list are allowed.
C14_KillSignals ==
    (Returned(<<"k","i","l","l">>) /\ ValidatedTokens # <<>>) =>
        LET t == ValidatedTokens IN
        /\ (ValidatorVerdict = "allow" /\ KillSignal(t) # <<>>)
              => Upper(KillSignal(t)) \in allowed_signals
        /\ (\A i \in 2..Len(t) : ~StartsWith(t[i], <<"-">>))
              => (ValidatorVerdict = "allow"
                    <=> (Len(t) >= 2 /\ \A i \in 2..Len(t) : ~LowPid(t[i])))
        /\ (Len(t) >= 2 /\ t[2] \in { <<"-","l">>, <<"-","-","l","i","s","t">> }) => ValidatorVerdict = "allow"

\* the tokens after the first that do not start with "-"
NonFlagTokens(t) == SelectSeq(Tail(t), LAMBDA w : ~StartsWith(w, <<"-">>))

\* the dangerous patterns of rm
DangerousRmPatterns ==
    { <<"/","*">>, <<".",".","/","*">>, <<"/",".",".">>, <<"/",".">>, <<".","*">>, <<"*","*","/">>, <<"~","/","*">>,
      <<"/","h","o","m","e">>, <<"/","e","t","c">>, <<"/","u","s","r">>, <<"/","v","a","r">>, <<"/","b","i","n">>, <<"/","s","b","i","n">>, <<"/","l","i","b">>,
      <<"/","b","o","o","t">>, <<"/","d","e","v">>, <<"/","p","r","o","c">>, <<"/","s","y","s">>, <<"/","r","o","o","t">> }

\* -r, -R, a cluster of short options with r or R in it, or --recursive
RecursiveFlag(w) ==
    \/ w = <<"-","-","r","e","c","u","r","s","i","v","e">>
    \/ /\ StartsWith(w, <<"-">>) /\ ~StartsWith(w, <<"-","-">>)
       /\ (Contains(w, <<"r">>) \/ Contains(w, <<"R">>))

\* a plain relative file name: no directory part, no wildcard, not hidden
PlainName(w) ==
    /\ w # <<>>
    /\ ~Contains(w, <<"/">>) /\ ~Contains(w, <<"*">>)
    /\ w[1] \notin {".", "~", "-"}

SystemctlValueOptions ==
    { <<"-","p">>, <<"-","-","p","r","o","p","e","r","t","y">>, <<"-","t">>, <<"-","-","t","y","p","e">>, <<"-","H">>, <<"-","-","h","o","s","t">>, <<"-","M">>, <<"-","-","m","a","c","h","i","n","e">>,
      <<"-","n">>, <<"-","-","l","i","n","e","s">>, <<"-","o">>, <<"-","-","o","u","t","p","u","t">>, <<"-","s">>, <<"-","-","s","i","g","n","a","l">> }

RECURSIVE SystemctlSubcommand(_, _)
SystemctlSubcommand(t, i) ==
    IF i > Len(t) THEN <<>>
    ELSE IF t[i] \in SystemctlValueOptions THEN SystemctlSubcommand(t, i + 2)
    ELSE IF StartsWith(t[i], <<"-">>) THEN SystemctlSubcommand(t, i + 1)
    ELSE t[i]

ReadOnlyOperations ==
    { <<"s","t","a","t","u","s">>, <<"s","h","o","w">>, <<"l","i","s","t","-","u","n","i","t","s">>, <<"l","i","s","t","-","u","n","i","t","-","f","i","l","e","s">>, <<"i","s","-","a","c","t","i","v","e">>, <<"i","s","-","e","n","a","b","l","e","d">> }

\* C16: systemctl validator: an invocation of systemctl is allowed only if its
\* subcommand is status, show, list-units, list-unit-files, is-active or
\* is-enabled; a state-changing subcommand and an invocation with no subcommand
\* are blocked.
C16_SystemctlReadOnly ==
    (Returned(<<"s","y","s","t","e","m","c","t","l">>) /\ ValidatedTokens # <<>>) =>
        LET verb == SystemctlSubcommand(ValidatedTokens, 2) IN
        /\ ValidatorVerdict = "allow" => verb \in ReadOnlyOperations
        /\ verb \notin ReadOnlyOperations => ValidatorVerdict = "block"

\* the dev processes pkill may target
DevProcesses ==
    { <<"n","o","d","e">>, <<"n","p","m">>, <<"n","p","x">>, <<"v","i","t","e">>, <<"n","e","x","t">>, <<"p","n","p","m">>, <<"u","v","i","c","o","r","n">>, <<"j","a","v","a">> }

\* C17: pkill validator: an invocation of pkill is allowed only if the process
\* name it targets is a dev process; no allowed invocation has python among its
\* non-flag arguments; an invocation with no non-flag argument is blocked.
C17_PkillDevOnly ==
    (Returned(<<"p","k","i","l","l">>) /\ ValidatedTokens # <<>>) =>
        LET args == NonFlagTokens(ValidatedTokens) IN
        /\ ValidatorVerdict = "allow" =>
              /\ args # <<>>
              /\ FirstWord(args[Len(args)]) \in DevProcesses
              /\ \A i \in 1..Len(args) : args[i] # <<"p","y","t","h","o","n">>
        /\ args = <<>> => ValidatorVerdict = "block"

\* the targets rmdir never takes
DangerousRmdirTargets == { <<"/">>, <<"/","*">>, <<".",".","/","*">>, <<"~">>, <<"~","/","*">>, <<".">> }

RmdirBlocks(targets) ==
    \/ targets = <<>>
    \/ \E i \in 1..Len(targets) : targets[i] \in DangerousRmdirTargets
    \/ \E i \in 1..Len(targets) :
          Contains(targets[i], <<".",".">>) /\ ~StartsWith(targets[i], <<".","/">>)

RECURSIVE VolumeSpecs(_, _)
VolumeSpecs(t, i) ==
    IF i > Len(t) THEN <<>>
    ELSE IF t[i] \in { <<"-","v">>, <<"-","-","v","o","l","u","m","e">> }
    THEN (IF i + 1 <= Len(t) THEN <<t[i + 1]>> ELSE <<>>) \o VolumeSpecs(t, i + 2)
    ELSE IF StartsWith(t[i], <<"-","-","v","o","l","u","m","e","=">>)
    THEN <<SubSeq(t[i], 10, Len(t[i]))>> \o VolumeSpecs(t, i + 1)
    ELSE IF StartsWith(t[i], <<"-","v","=">>)
    THEN <<SubSeq(t[i], 4, Len(t[i]))>> \o VolumeSpecs(t, i + 1)
    ELSE IF StartsWith(t[i], <<"-","v">>)
    THEN <<SubSeq(t[i], 3, Len(t[i]))>> \o VolumeSpecs(t, i + 1)
    ELSE VolumeSpecs(t, i + 1)

\* <<>> when the specification names no host side
HostPath(spec) == IF Contains(spec, <<":">>) THEN SplitChar(spec, ":", 1, <<>>)[1] ELSE <<>>

SystemRoots == { <<"/">>, <<"/","h","o","m","e">>, <<"/","e","t","c">>, <<"/","u","s","r">>, <<"/","v","a","r">> }

\* C19: docker validator: an invocation of docker with a volume flag, in any
\* spelling docker accepts, whose host side is /, /home, /etc, /usr or /var is
\* blocked.
C19_DockerVolumes ==
    (Returned(<<"d","o","c","k","e","r">>) /\ ValidatedTokens # <<>>) =>
        LET specs == VolumeSpecs(ValidatedTokens, 2) IN
        (\E i \in 1..Len(specs) : HostPath(specs[i]) \in SystemRoots)
            => ValidatorVerdict = "block"

LifecycleScripts == { <<"s","t","a","r","t",".","s","h">>, <<"r","e","s","t","a","r","t",".","s","h">>, <<"s","t","o","p",".","s","h">> }

\* ./<name>.sh, or a path that ends with /<name>.sh
AcceptedScript(w) ==
    \E n \in LifecycleScripts : w = <<".","/">> \o n \/ EndsWith(w, <<"/">> \o n)

\* C20: lifecycle scripts: a finished call with a segment that invokes start.sh,
\* restart.sh or stop.sh by a first token that is neither ./<name>.sh nor ends
\* with /<name>.sh (a bare start.sh, found through PATH) has returned a block.
C20_LifecycleScripts ==
    (/\ BashCallDone
     /\ \E k \in DOMAIN segments :
           LET t == shlex_split(segments[k]).tokens IN
           /\ t # <<>>
           /\ basename(t[1]) \in LifecycleScripts
           /\ ~AcceptedScript(t[1]))
    => decision = "block"


(***************************************************************************)
(* Properties of the hook as a whole: segments, extraction, redirections,  *)
(* path resolution, the allowlist.                                         *)
(***************************************************************************)

\* the extra-validation commands a segment holds
ValidatedNames(segment) ==
    { cmd \in Range(extract_commands(segment)) : cmd \in COMMANDS_NEEDING_EXTRA_VALIDATION }

\* the segment, submitted alone, is rejected by the validator of one of its commands
RejectedAlone(segment) ==
    \E cmd \in ValidatedNames(segment) : ExtraValidation(cmd, segment).v = "block"

\* C21: every occurrence is validated on its own segment: a finished call with
\* a segment that the validator of one of its commands rejects when the
\* segment is submitted alone has returned a block, wherever the segment
\* stands among the others.
C21_EveryOccurrenceValidated ==
    (BashCallDone /\ \E k \in DOMAIN segments : RejectedAlone(segments[k]))
        => decision = "block"

\* a token without the ";" that shlex leaves at its end
Bare(token) == IF EndsWith(token, <<";">>) THEN SubSeq(token, 1, Len(token) - 1) ELSE token

\* the tokens after which a command is expected
ResetTokens ==
    { <<"|">>, <<"|","|">>, <<"&","&">>, <<";">>, <<"&">>,
      <<"i","f">>, <<"t","h","e","n">>, <<"e","l","s","e">>, <<"e","l","i","f">>, <<"f","i">>, <<"w","h","i","l","e">>, <<"u","n","t","i","l">>, <<"d","o">>, <<"d","o","n","e">>,
      <<"c","a","s","e">>, <<"e","s","a","c">>, <<"i","n">>, <<"!">>, <<"{">>, <<"}">> }

\* neither a flag nor an assignment
IsWord(token) ==
    /\ Bare(token) # <<>>
    /\ ~StartsWith(token, <<"-">>)
    /\ ~(Contains(Bare(token), <<"=">>) /\ ~StartsWith(token, <<"=">>))

\* the position of the first word of t from i on; 0 when there is none
RECURSIVE NextWord(_, _)
NextWord(t, i) ==
    IF i > Len(t) THEN 0 ELSE IF IsWord(t[i]) THEN i ELSE NextWord(t, i + 1)

\* the tokens of the segments extract_commands walks
WalkedSegments(s) ==
    LET ps == re_split_semicolon(s) IN
    [k \in DOMAIN ps |-> shlex_split(Strip(ps[k])).tokens]

\* the words that follow an operator or keyword in t and are themselves
\* neither: the loop variable and word list of for / select are left aside
WordsAfterReset(t) ==
    IF \E i \in DOMAIN t : Bare(t[i]) \in { <<"f","o","r">>, <<"s","e","l","e","c","t">> } THEN {}
    ELSE { Bare(t[NextWord(t, i + 1)]) :
             i \in { n \in DOMAIN t : /\ Bare(t[n]) \in ResetTokens
                                      /\ NextWord(t, n + 1) # 0
                                      /\ Bare(t[NextWord(t, n + 1)]) \notin ResetTokens } }

\* C22: expect_command reset: once the hook has extracted the commands of a
\* command string shlex can split, every token that is the first non-flag,
\* non-assignment token after an operator or a shell keyword of its segment
\* is among the extracted command names, by its basename, also when the
\* keyword is not the first token of the segment.
C22_ExpectCommandReset ==
    (trace # <<>> /\ ~extract_commands_failed(command)) =>
        \A k \in DOMAIN WalkedSegments(command) :
            \A w \in WordsAfterReset(WalkedSegments(command)[k]) :
                basename(w) \in Range(commands)

(***************************************************************************)
(* Segmentation with a quote-state tracker: q is the quote the scan is     *)
(* inside, "" outside quotes; a backslash outside single quotes takes the  *)
(* next character with it.  A piece ends at ";", "&&" and "||" outside     *)
(* quotes and nowhere else.                                                *)
(***************************************************************************)
RECURSIVE QuoteAwareSplit(_, _, _, _)
QuoteAwareSplit(s, i, q, cur) ==
    IF i > Len(s) THEN <<cur>>
    ELSE LET c == s[i] IN
         IF q = "'"
         THEN QuoteAwareSplit(s, i + 1, IF c = "'" THEN "" ELSE q, Append(cur, c))
         ELSE IF c = "\\" /\ i < Len(s)
         THEN QuoteAwareSplit(s, i + 2, q, cur \o <<c, s[i + 1]>>)
         ELSE IF q = "\""
         THEN QuoteAwareSplit(s, i + 1, IF c = "\"" THEN "" ELSE q, Append(cur, c))
         ELSE IF c \in Quotes THEN QuoteAwareSplit(s, i + 1, c, Append(cur, c))
         ELSE IF c = ";" THEN <<cur>> \o QuoteAwareSplit(s, i + 1, q, <<>>)
         ELSE IF c \in {"&", "|"} /\ i < Len(s) /\ s[i + 1] = c
         THEN <<cur>> \o QuoteAwareSplit(s, i + 2, q, <<>>)
         ELSE QuoteAwareSplit(s, i + 1, q, Append(cur, c))

\* the pieces, stripped, the empty ones dropped
QuoteAwareSegments(s) == StripNonEmpty(QuoteAwareSplit(s, 1, "", <<>>))

\* the hook has computed segments = split_command_segments(command)
SegmentsComputed == trace # <<>> /\ commands # <<>>

\* C23: quote-aware segmentation: the segments the hook works with are the
\* pieces of the command string between the ";", "&&" and "||" that stand
\* outside single and double quotes: an operator inside a quoted string makes
\* no boundary, every operator outside quotes makes one.
C23_QuoteAwareSegments ==
    SegmentsComputed => segments = QuoteAwareSegments(command)

\* the redirection operators, as tokens of their own
RedirectionOperators == { <<">">>, <<">",">">>, <<"<">>, <<"2",">">>, <<"&",">">> }

\* the file-operation commands whose operands are scanned one by one: cp and
\* mv have a policy of their own
PlainFileOperations == file_operation_commands \ { <<"c","p">>, <<"m","v">> }

\* a project root is supplied and resolves
RootResolves == project_dir # None /\ ~stat_eloop(realpath(project_dir))

\* the tokens that follow a redirection operator
RedirectionTargets(t) ==
    { t[i + 1] : i \in { n \in 1..(Len(t) - 1) : t[n] \in RedirectionOperators } }

\* C24: redirection targets are path candidates: for a finished call with a
\* project root whose command string is one plain file-operation command,
\* every token that follows ">", ">>", "<", "2>" or "&>" is among the paths
\* extract_file_paths_from_command returns, and the call is blocked when such
\* a token canonicalizes outside the project root and /tmp.
C24_RedirectionTargets ==
    (/\ BashCallDone
     /\ RootResolves
     /\ shlex_split(command).ok
     /\ shlex_split(command).tokens # <<>>
     /\ basename(shlex_split(command).tokens[1]) \in PlainFileOperations)
    => \A target \in RedirectionTargets(shlex_split(command).tokens) :
          /\ target \in Range(extract_file_paths_from_command(command))
          /\ Outside(target, project_dir) => decision = "block"

\* the path the hook resolves for a candidate path
Joined(path, root) ==
    IF isabs(expanduser(path)) THEN expanduser(path) ELSE root \o <<"/">> \o expanduser(path)

\* resolving fails: the operating system reports a symbolic link loop, or the
\* path holds a NUL character
Unresolvable(abs) == Nul \in Range(abs) \/ stat_eloop(realpath(abs))

\* the candidate paths the path stage validates one by one
CandidatePaths ==
    IF basename(commands[1]) \in { <<"c","p">>, <<"m","v">> } THEN <<>>
    ELSE extract_file_paths_from_command(command)

\* C25: resolution failure fails closed: a call that has gone through the path
\* stage has returned a block when the project root or the first candidate
\* path cannot be resolved, has not returned {} when any candidate path cannot
\* be resolved, and has gone through the path stage once.
C25_ResolutionFailsClosed ==
    (BashCallDone /\ PathCheckRan /\ CandidatePaths # <<>>) =>
        /\ (\/ Unresolvable(project_dir)
            \/ Unresolvable(Joined(CandidatePaths[1], project_dir)))
              => decision = "block"
        /\ (\E k \in DOMAIN CandidatePaths :
               Unresolvable(Joined(CandidatePaths[k], project_dir)))
              => decision # "allow"
        /\ Cardinality({ i \in DOMAIN trace : trace[i].stage = "PathCheck" }) = 1

\* a flag or an assignment
FlagOrAssignment(token) ==
    \/ StartsWith(token, <<"-">>)
    \/ \E i \in 2..Len(token) : token[i] = "="

\* the command string holds no command name: it is empty or missing, is
\* whitespace only, cannot be split into tokens, or holds flags and
\* assignments only
NoCommandName(s) ==
    \/ s = <<>>
    \/ Strip(s) = <<>>
    \/ ~shlex_split(s).ok
    \/ \A i \in DOMAIN shlex_split(s).tokens : FlagOrAssignment(shlex_split(s).tokens[i])

\* C26: no allow without an allowlist pass: a finished call of "Bash" has
\* returned {} only if the hook extracted at least one command name and every
\* extracted name is in ALLOWED_COMMANDS, and has returned a block when its
\* command string holds no command name (empty or missing, whitespace only,
\* flags or assignments only, unparseable).
C26_NoAllowWithoutAllowlist ==
    (pc = "done" /\ tool_name = "Bash") =>
        /\ decision = "allow" =>
              /\ commands # <<>>
              /\ \A k \in DOMAIN commands : commands[k] \in ALLOWED_COMMANDS
        /\ NoCommandName(command) => decision = "block"

=============================================================================
